---- MODULE Spec2Model ----
(***************************************************************************)
(* Boss-run ledger, drop ledger and drop-rate aggregator of the GMSTracker *)
(* backend (backend/app/routers/tracking.py, routers/stats.py,             *)
(* schemas/boss_run.py, database.py).                                      *)
(*                                                                         *)
(* Dates are Python proleptic Gregorian ordinals (date.toordinal()), so    *)
(* that date.weekday() is (ordinal + 6) % 7 as in the standard library.    *)
(* 738889 is 2024-01-04, a Thursday.                                       *)
(***************************************************************************)
EXTENDS Integers, Sequences, FiniteSets, TLC

VARIABLES
    runs,        \* table boss_runs: set of rows
    drops,       \* table boss_run_drops: set of rows
    stats,       \* table drop_rate_stats: set of rows
    now,         \* the current UTC date (ordinal) of datetime.now(timezone.utc)
    nextRunId,   \* next fresh BossRun id (uuid4 of UUIDMixin)
    nextDropId,  \* sequence behind boss_run_drops.id (autoincrement)
    resp,        \* the last request and the response it got
    wk,          \* inputs and results of the week-start calculator
    xp,          \* table xp_entries: set of rows
    nextXpId,    \* next fresh XPEntry id (uuid4 of UUIDMixin)
    calc,        \* inputs and result of the XP calculator
    txn,         \* the POST /tracking/runs requests in flight, one per connection
    agg,         \* the POST /stats/compute request in flight and its session
    snapshots,   \* table character_xp_snapshots: set of rows
    xp_table_file \* whether the file XP_Table.csv exists at XP_TABLE_PATH

vars == <<runs, drops, stats, now, nextRunId, nextDropId, resp, wk, xp, nextXpId, calc, txn, agg, snapshots, xp_table_file>>

-----------------------------------------------------------------------------
(* Bounds of the model *)

MaxRuns == 2        \* BossRun rows ever created
MaxDrops == 2       \* BossRunDrop ids ever drawn from the sequence
MaxDropIds == 2     \* length of drop_item_ids in one request
Day0 == 738889      \* the current UTC date: 2024-01-04, a Thursday
WeekSpan == 8       \* the calculator is tried on WeekLo .. WeekLo + WeekSpan
WeekLo == 738884    \* 2023-12-30, a Saturday
MaxTick == 1        \* days the clock may advance past Day0
MaxXp == 2          \* XPEntry rows ever created
MaxDays == 7        \* days the clock may advance past Day0 in the weekly view
DivDigits == 4      \* decimal places a quotient of the model may need

-----------------------------------------------------------------------------
(* Reference data: users, characters, bosses, items, boss_drop_table *)

Users == {1, 2}

\* characters rows: id, user_id
Characters ==
    { [id |-> 1, user_id |-> 1],
      [id |-> 2, user_id |-> 1],
      [id |-> 3, user_id |-> 2] }

UnknownCharacter == 9

\* a user who owns no character
NewUser == 3

\* character_id: None, the query parameter left out
AllCharacters == 0

\* bosses rows: id, reset_type, crystal_meso (int | None: a sequence of at
\* most one value), sort_order, is_active; sort_order differs from row to row
Bosses ==
    { [id |-> 1, reset_type |-> "weekly", crystal_meso |-> <<7>>, sort_order |-> 1, is_active |-> TRUE],
      [id |-> 2, reset_type |-> "daily",  crystal_meso |-> <<3>>, sort_order |-> 2, is_active |-> TRUE],
      [id |-> 3, reset_type |-> "weekly", crystal_meso |-> <<>>,  sort_order |-> 3, is_active |-> TRUE],
      [id |-> 4, reset_type |-> "weekly", crystal_meso |-> <<5>>, sort_order |-> 0, is_active |-> FALSE] }

UnknownBoss == 9

\* items rows: id
Items == { [id |-> 1], [id |-> 2] }

UnknownItem == 9

\* boss_drop_table rows in the order select(BossDropTable) returns them;
\* unique per (boss_id, item_id)
BossDropTable ==
    << [id |-> 1, boss_id |-> 1, item_id |-> 1],
       [id |-> 2, boss_id |-> 1, item_id |-> 2],
       [id |-> 3, boss_id |-> 2, item_id |-> 1] >>

-----------------------------------------------------------------------------
(* Temporal reset calculator: schemas/boss_run.py *)

\* a datetime: its wall-clock date and hour and its UTC offset in hours
Datetime(d, h, off) == [date |-> d, hour |-> h, utcoffset |-> off]

\* cleared_at: None
NoDatetime == [date |-> 0, hour |-> 0, utcoffset |-> 0]

\* datetime.now(timezone.utc)
UtcNow(day) == Datetime(day, 0, 0)

\* date.weekday(): Monday = 0 ... Sunday = 6
Weekday(d) == (d + 6) % 7

\* Monday = 0, Thursday = 3
Thursday == 3

\* isinstance(dt, datetime): a plain date has no time fields
IsDatetime(dt) == "hour" \in DOMAIN dt

\* a plain date
Date(d) == [date |-> d]

\* the current week taken to start on Monday
get_current_week_start_Monday(day) ==
    LET n == UtcNow(day)
    IN  n.date - Weekday(n.date)

\* the calculator with the week starting on Monday
get_week_start_for_date_Monday(dt) ==
    LET d == IF IsDatetime(dt) THEN Date(dt.date) ELSE dt
    IN  d.date - Weekday(d.date)

get_week_start_for_date(dt) ==
    LET d == IF IsDatetime(dt) THEN Date(dt.date) ELSE dt
        days_since_thursday == (Weekday(d.date) - Thursday) % 7
    IN  d.date - days_since_thursday

get_current_week_start(day) ==
    LET n == UtcNow(day)
        days_since_thursday == (Weekday(n.date) - Thursday) % 7
    IN  n.date - days_since_thursday

-----------------------------------------------------------------------------
(* Decimal numbers: a value coefficient * 10^exponent, kept as the pair     *)
(* <<coefficient, exponent>> without trailing zeros in the coefficient, so  *)
(* that equal values are equal pairs. Every number of the model has far     *)
(* fewer digits than the 28 of the default decimal context, so the          *)
(* arithmetic of decimal.Decimal is exact on them.                          *)

RECURSIVE Pow10(_)
Pow10(n) == IF n = 0 THEN 1 ELSE 10 * Pow10(n - 1)

RECURSIVE DecNorm(_)
DecNorm(d) ==
    IF d[1] = 0 THEN <<0, 0>>
    ELSE IF d[1] % 10 = 0 THEN DecNorm(<<d[1] \div 10, d[2] + 1>>)
    ELSE d

\* the coefficient of d at the exponent e <= d's exponent
DecCoeffAt(d, e) == IF d[1] = 0 THEN 0 ELSE d[1] * Pow10(d[2] - e)

DecMinExp(a, b) ==
    IF a[1] = 0 THEN b[2]
    ELSE IF b[1] = 0 THEN a[2]
    ELSE IF a[2] <= b[2] THEN a[2] ELSE b[2]

\* Decimal.__add__, __sub__, __mul__
DecAdd(a, b) ==
    DecNorm(<<DecCoeffAt(a, DecMinExp(a, b)) + DecCoeffAt(b, DecMinExp(a, b)),
              DecMinExp(a, b)>>)
DecSub(a, b) ==
    DecNorm(<<DecCoeffAt(a, DecMinExp(a, b)) - DecCoeffAt(b, DecMinExp(a, b)),
              DecMinExp(a, b)>>)
DecMul(a, b) == DecNorm(<<a[1] * b[1], a[2] + b[2]>>)

\* Decimal.__truediv__ by a power of ten, the only divisors of the code
DecDivPow10(a, k) == DecNorm(<<a[1], a[2] - k>>)

\* Decimal.__le__
DecLE(a, b) == DecCoeffAt(a, DecMinExp(a, b)) <= DecCoeffAt(b, DecMinExp(a, b))

\* Decimal('0')
DecZero == <<0, 0>>

\* a percentage with two decimal places, given in hundredths of a percent
Percent(h) == DecNorm(<<h, -2>>)

\* Decimal(str(n)) of an int
DecInt(n) == DecNorm(<<n, 0>>)

-----------------------------------------------------------------------------
(* XP progression calculator: services/xp_table.py, services/epic_dungeon.py *)

\* the per-level table of XP_Table.csv, column 'XP Required (Actual)': level
\* 250 requires 500,000,000,000 XP; the other rows stand for rows of the
\* file. The table is keyed 200..299; the model keeps three of its levels.
required_xp_table ==
    (250 :> <<5, 11>>) @@ (260 :> <<12, 11>>) @@ (270 :> <<31, 11>>)

\* a level the table has no row for
LevelOutOfTable == 300

\* EPIC_DUNGEON_XP, in billions: 260 -> 194.6, 270 -> 384.75; no entry
\* below 260
EPIC_DUNGEON_XP ==
    (260 :> <<1946, -1>>) @@ (270 :> <<38475, -2>>)

\* raise ValueError(...)
ValueError == [error |-> TRUE, actual |-> DecZero, billions |-> DecZero,
               trillions |-> DecZero]

\* return None
None == <<>>

\* the gain taken from the new percentage alone
calculate_xp_gained_NoOld(level, old_percent, new_percent) ==
    IF level \notin DOMAIN required_xp_table THEN ValueError
    ELSE LET xp_gained_actual ==
                 DecDivPow10(DecMul(required_xp_table[level], new_percent), 2)
         IN  [error |-> FALSE, actual |-> xp_gained_actual,
              billions |-> DecDivPow10(xp_gained_actual, 9),
              trillions |-> DecDivPow10(xp_gained_actual, 12)]

\* get_xp_for_level raises for a level without a row; otherwise
\* (xp_required * percent_diff) / Decimal('100') in three units
calculate_xp_gained(level, old_percent, new_percent) ==
    IF level \notin DOMAIN required_xp_table THEN ValueError
    ELSE LET xp_required == required_xp_table[level]
             percent_diff == DecSub(new_percent, old_percent)
             xp_gained_actual == DecDivPow10(DecMul(xp_required, percent_diff), 2)
         IN  [error |-> FALSE, actual |-> xp_gained_actual,
              billions |-> DecDivPow10(xp_gained_actual, 9),
              trillions |-> DecDivPow10(xp_gained_actual, 12)]

\* multiplier 4 is base + 4x bonus, 8 is base + 8x bonus
TotalMultiplier(multiplier) ==
    IF multiplier = 4 THEN DecInt(5)
    ELSE IF multiplier = 8 THEN DecInt(9)
    ELSE DecInt(multiplier)

\* the bonus of a level without an entry taken as zero
get_epic_dungeon_xp_Zero(level, multiplier) ==
    IF level \notin DOMAIN EPIC_DUNGEON_XP
    THEN <<[actual |-> DecZero, billions |-> DecZero, trillions |-> DecZero]>>
    ELSE LET xp_billions == DecMul(EPIC_DUNGEON_XP[level], TotalMultiplier(multiplier))
         IN  <<[actual |-> DecMul(xp_billions, <<1, 9>>),
                billions |-> xp_billions,
                trillions |-> DecDivPow10(xp_billions, 3)]>>

\* Optional[Dict]: None, or the one dict
get_epic_dungeon_xp(level, multiplier) ==
    IF level \notin DOMAIN EPIC_DUNGEON_XP THEN None
    ELSE LET xp_billions == DecMul(EPIC_DUNGEON_XP[level], TotalMultiplier(multiplier))
         IN  <<[actual |-> DecMul(xp_billions, <<1, 9>>),
                billions |-> xp_billions,
                trillions |-> DecDivPow10(xp_billions, 3)]>>

\* no calculation asked for
NoCalc == [level |-> 0, old_percent |-> DecZero, new_percent |-> DecZero,
           done |-> FALSE, result |-> ValueError]

-----------------------------------------------------------------------------
(* Requests and responses *)

\* what a request was and how it was answered; fields a request does not
\* have stay at their defaults
NoResp ==
    [op |-> "none", user |-> 0, status |-> 0, run_id |-> 0, character_id |-> 0,
     boss_id |-> 0, week_start |-> 0, is_clear |-> FALSE, item_id |-> 0,
     drop_item_ids |-> <<>>, count |-> 0, min_sample_size |-> 0, rows |-> <<>>,
     total_bosses |-> 0, total_meso |-> 0, entry_id |-> 0, entry_date |-> 0,
     data |-> <<>>]

-----------------------------------------------------------------------------
(* Queries of the handlers *)

\* select(Character).where(Character.id == ..., Character.user_id == ...)
SelectCharacter(character_id, user_id) ==
    {c \in Characters : c.id = character_id /\ c.user_id = user_id}

\* select(Boss).where(Boss.id == ...)
SelectBoss(boss_id) == {b \in Bosses : b.id = boss_id}

\* select(Item).where(Item.id == ...)
SelectItem(item_id) == {i \in Items : i.id = item_id}

\* select(BossRun).where(BossRun.id == run_id)
SelectRun(rs, run_id) == {r \in rs : r.id = run_id}

\* run.character.user_id
RunOwner(run) == (CHOOSE c \in Characters : c.id = run.character_id).user_id

\* the query with the is_clear filter inverted
ExistingClears_NotClear(rs, character_id, boss_id, week_start) ==
    {r \in rs : /\ r.character_id = character_id
                /\ r.boss_id = boss_id
                /\ r.week_start = week_start
                /\ r.is_clear = FALSE}

\* select(BossRun).where(character_id, boss_id, week_start, is_clear == True)
ExistingClears(rs, character_id, boss_id, week_start) ==
    {r \in rs : /\ r.character_id = character_id
                /\ r.boss_id = boss_id
                /\ r.week_start = week_start
                /\ r.is_clear = TRUE}

\* the guard applied to the wrong reset cadence
AlreadyCleared_Daily(boss, is_clear, existing) ==
    boss.reset_type = "daily" /\ existing # {}

\* the guard of create_boss_run that answers 409: the boss is weekly and the
\* query finds a row (the request's is_clear is not consulted)
AlreadyCleared(boss, is_clear, existing) ==
    boss.reset_type = "weekly" /\ existing # {}

-----------------------------------------------------------------------------
(* The request's session: rows flushed by the handler, and how the          *)
(* dependency get_db ends it                                                *)

\* await db.commit(): the flushed rows become the stored rows
SessionCommit(session) == session

\* a rollback that keeps what the handler flushed
SessionRollback_Keep(session) == session

\* except Exception: await session.rollback(): the stored rows stay as they were
SessionRollback(session) == [runs |-> runs, drops |-> drops]

\* the loop without the item query: a row for every listed id
RECURSIVE AddDrops_Unchecked(_, _, _, _)
AddDrops_Unchecked(ds, run_id, ids, next) ==
    IF ids = <<>> THEN ds
    ELSE AddDrops_Unchecked(ds \cup {[id |-> next, boss_run_id |-> run_id,
                                      item_id |-> Head(ids), quantity |-> 1]},
                            run_id, Tail(ids), next + 1)

\* the drop rows of the loop over drop_item_ids, ids drawn from the sequence
RECURSIVE AddDrops(_, _, _, _)
AddDrops(ds, run_id, ids, next) ==
    IF ids = <<>> THEN ds
    ELSE IF SelectItem(Head(ids)) # {}
         THEN AddDrops(ds \cup {[id |-> next, boss_run_id |-> run_id,
                                 item_id |-> Head(ids), quantity |-> 1]},
                       run_id, Tail(ids), next + 1)
         ELSE AddDrops(ds, run_id, Tail(ids), next)

\* how many of the listed ids name an item
ValidCount(ids) == Cardinality({i \in 1..Len(ids) : SelectItem(ids[i]) # {}})

-----------------------------------------------------------------------------
(* POST /tracking/runs *)

\* failAt = 0: the database answers every statement; failAt = k > 0: the
\* item query of the k-th listed id raises
RecordRun(u, character_id, boss_id, cleared_at_in, party_size, is_clear, drop_item_ids, failAt) ==
    LET character == SelectCharacter(character_id, u)
        boss == SelectBoss(boss_id)
        cleared_at == IF cleared_at_in = NoDatetime THEN UtcNow(now)
                      ELSE cleared_at_in
        week_start == get_week_start_for_date(cleared_at)
        existing == ExistingClears(runs, character_id, boss_id, week_start)
        boss_run == [id |-> nextRunId, character_id |-> character_id,
                     boss_id |-> boss_id, cleared_at |-> cleared_at,
                     week_start |-> week_start, party_size |-> party_size,
                     is_clear |-> is_clear]
        request == [NoResp EXCEPT !.op = "RecordRun", !.user = u,
                       !.character_id = character_id, !.boss_id = boss_id,
                       !.is_clear = is_clear, !.drop_item_ids = drop_item_ids]
        flushed == SubSeq(drop_item_ids, 1, failAt - 1)
        session(ids) == [runs |-> runs \cup {boss_run},
                         drops |-> AddDrops(drops, nextRunId, ids, nextDropId)]
    IN
    /\ UNCHANGED <<stats, now, wk, xp, nextXpId, calc, txn, agg, snapshots, xp_table_file>>
    /\ IF character = {} \/ boss = {}
       THEN /\ resp' = [request EXCEPT !.status = 404]
            /\ UNCHANGED <<runs, drops, nextRunId, nextDropId>>
       ELSE IF (CHOOSE b \in boss : TRUE).reset_type = "weekly" /\ Cardinality(existing) > 1
       THEN \* scalar_one_or_none raises MultipleResultsFound
            /\ resp' = [request EXCEPT !.status = 500, !.week_start = week_start]
            /\ UNCHANGED <<runs, drops, nextRunId, nextDropId>>
       ELSE IF AlreadyCleared(CHOOSE b \in boss : TRUE, is_clear, existing)
       THEN /\ resp' = [request EXCEPT !.status = 409, !.week_start = week_start]
            /\ UNCHANGED <<runs, drops, nextRunId, nextDropId>>
       ELSE IF failAt > 0
       THEN /\ nextRunId <= MaxRuns
            /\ nextDropId + ValidCount(flushed) <= MaxDrops + 1
            /\ LET stored == SessionRollback(session(flushed))
               IN  /\ runs' = stored.runs
                   /\ drops' = stored.drops
            /\ nextRunId' = nextRunId
            /\ nextDropId' = nextDropId + ValidCount(flushed)
            /\ resp' = [request EXCEPT !.status = 500, !.week_start = week_start]
       ELSE /\ nextRunId <= MaxRuns
            /\ nextDropId + ValidCount(drop_item_ids) <= MaxDrops + 1
            /\ LET stored == SessionCommit(session(drop_item_ids))
               IN  /\ runs' = stored.runs
                   /\ drops' = stored.drops
            /\ nextRunId' = nextRunId + 1
            /\ nextDropId' = nextDropId + ValidCount(drop_item_ids)
            /\ resp' = [request EXCEPT !.status = 201, !.week_start = week_start,
                                       !.run_id = nextRunId]

-----------------------------------------------------------------------------
(* GET /tracking/runs/{run_id} *)

\* the handler answering 404 for a run of another user
GetRun_Hidden(u, run_id) ==
    LET run == {r \in SelectRun(runs, run_id) : RunOwner(r) = u}
        request == [NoResp EXCEPT !.op = "GetRun", !.user = u, !.run_id = run_id]
    IN
    /\ UNCHANGED <<runs, drops, stats, now, nextRunId, nextDropId, wk, xp, nextXpId, calc, txn, agg, snapshots, xp_table_file>>
    /\ IF run = {}
       THEN resp' = [request EXCEPT !.status = 404]
       ELSE LET r == CHOOSE r \in run : TRUE
            IN  resp' = [request EXCEPT !.status = 200,
                                        !.character_id = r.character_id,
                                        !.boss_id = r.boss_id,
                                        !.week_start = r.week_start,
                                        !.is_clear = r.is_clear]

GetRun(u, run_id) ==
    LET run == SelectRun(runs, run_id)
        request == [NoResp EXCEPT !.op = "GetRun", !.user = u, !.run_id = run_id]
    IN
    /\ UNCHANGED <<runs, drops, stats, now, nextRunId, nextDropId, wk, xp, nextXpId, calc, txn, agg, snapshots, xp_table_file>>
    /\ IF run = {}
       THEN resp' = [request EXCEPT !.status = 404]
       ELSE IF RunOwner(CHOOSE r \in run : TRUE) # u
       THEN resp' = [request EXCEPT !.status = 403]
       ELSE LET r == CHOOSE r \in run : TRUE
            IN  resp' = [request EXCEPT !.status = 200,
                                        !.character_id = r.character_id,
                                        !.boss_id = r.boss_id,
                                        !.week_start = r.week_start,
                                        !.is_clear = r.is_clear]

-----------------------------------------------------------------------------
(* DELETE /tracking/runs/{run_id} *)

\* a delete that leaves the run's drops behind
DeleteCascade_RunOnly(session, run) ==
    [runs |-> session.runs \ {run}, drops |-> session.drops]

\* await db.delete(run) with BossRun.drops cascade="all, delete-orphan"
DeleteCascade(session, run) ==
    [runs |-> session.runs \ {run},
     drops |-> {d \in session.drops : d.boss_run_id # run.id}]

DeleteRun(u, run_id) ==
    LET run == SelectRun(runs, run_id)
        request == [NoResp EXCEPT !.op = "DeleteRun", !.user = u, !.run_id = run_id]
    IN
    /\ UNCHANGED <<stats, now, nextRunId, nextDropId, wk, xp, nextXpId, calc, txn, agg, snapshots, xp_table_file>>
    /\ IF run = {}
       THEN /\ resp' = [request EXCEPT !.status = 404]
            /\ UNCHANGED <<runs, drops>>
       ELSE IF RunOwner(CHOOSE r \in run : TRUE) # u
       THEN /\ resp' = [request EXCEPT !.status = 403]
            /\ UNCHANGED <<runs, drops>>
       ELSE LET stored == SessionCommit(
                    DeleteCascade([runs |-> runs, drops |-> drops],
                                  CHOOSE r \in run : TRUE))
            IN  /\ runs' = stored.runs
                /\ drops' = stored.drops
                /\ resp' = [request EXCEPT !.status = 204]

-----------------------------------------------------------------------------
(* POST /tracking/runs/{run_id}/drops *)

\* the handler without the ownership check
AddDrop_AnyUser(u, run_id, item_id, quantity) ==
    LET run == SelectRun(runs, run_id)
        item == SelectItem(item_id)
        request == [NoResp EXCEPT !.op = "AddDrop", !.user = u, !.run_id = run_id,
                                  !.item_id = item_id, !.count = quantity]
        drop == [id |-> nextDropId, boss_run_id |-> run_id, item_id |-> item_id,
                 quantity |-> quantity]
    IN
    /\ UNCHANGED <<runs, stats, now, nextRunId, wk, xp, nextXpId, calc, txn, agg, snapshots, xp_table_file>>
    /\ IF run = {} \/ item = {}
       THEN /\ resp' = [request EXCEPT !.status = 404]
            /\ UNCHANGED <<drops, nextDropId>>
       ELSE /\ nextDropId <= MaxDrops
            /\ drops' = drops \cup {drop}
            /\ nextDropId' = nextDropId + 1
            /\ resp' = [request EXCEPT !.status = 201]

AddDrop(u, run_id, item_id, quantity) ==
    LET run == SelectRun(runs, run_id)
        item == SelectItem(item_id)
        request == [NoResp EXCEPT !.op = "AddDrop", !.user = u, !.run_id = run_id,
                                  !.item_id = item_id, !.count = quantity]
        drop == [id |-> nextDropId, boss_run_id |-> run_id, item_id |-> item_id,
                 quantity |-> quantity]
    IN
    /\ UNCHANGED <<runs, stats, now, nextRunId, wk, xp, nextXpId, calc, txn, agg, snapshots, xp_table_file>>
    /\ IF run = {}
       THEN /\ resp' = [request EXCEPT !.status = 404]
            /\ UNCHANGED <<drops, nextDropId>>
       ELSE IF RunOwner(CHOOSE r \in run : TRUE) # u
       THEN /\ resp' = [request EXCEPT !.status = 403]
            /\ UNCHANGED <<drops, nextDropId>>
       ELSE IF item = {}
       THEN /\ resp' = [request EXCEPT !.status = 404]
            /\ UNCHANGED <<drops, nextDropId>>
       ELSE /\ nextDropId <= MaxDrops
            /\ LET stored == SessionCommit([runs |-> runs,
                                            drops |-> drops \cup {drop}])
               IN  drops' = stored.drops
            /\ nextDropId' = nextDropId + 1
            /\ resp' = [request EXCEPT !.status = 201]

-----------------------------------------------------------------------------
(* POST /tracking/runs, statement by statement: requests on two connections *)
(* run concurrently, each in the transaction of its own session. Under the  *)
(* isolation level of the engine (none is configured: READ COMMITTED) a     *)
(* statement sees the rows committed before it started, and the rows its    *)
(* own session flushed.                                                     *)

\* the connections that carry a request at the same time
Slots == {1, 2}

\* the BossRun constructed but not yet given its id
NoRow == [character_id |-> 0, boss_id |-> 0, cleared_at |-> NoDatetime,
          week_start |-> 0, party_size |-> 0, is_clear |-> FALSE]

\* no request on the connection
NoTxn == [pc |-> "idle", request |-> NoResp, row |-> NoRow]

NoTxns == [p \in Slots |-> NoTxn]

\* the statements up to the duplicate check: the character query, the boss
\* query and, for a weekly boss, the query for a clear of the week
BeginRecordRun(p, u, character_id, boss_id, cleared_at_in, party_size, is_clear, drop_item_ids) ==
    LET character == SelectCharacter(character_id, u)
        boss == SelectBoss(boss_id)
        cleared_at == IF cleared_at_in = NoDatetime THEN UtcNow(now)
                      ELSE cleared_at_in
        week_start == get_week_start_for_date(cleared_at)
        existing == ExistingClears(runs, character_id, boss_id, week_start)
        boss_run == [character_id |-> character_id, boss_id |-> boss_id,
                     cleared_at |-> cleared_at, week_start |-> week_start,
                     party_size |-> party_size, is_clear |-> is_clear]
        request == [NoResp EXCEPT !.op = "RecordRun", !.user = u,
                       !.character_id = character_id, !.boss_id = boss_id,
                       !.is_clear = is_clear, !.drop_item_ids = drop_item_ids]
        answered(status) ==
            [pc |-> "done", row |-> NoRow,
             request |-> [request EXCEPT !.status = status, !.week_start = week_start]]
    IN
    /\ txn[p].pc = "idle"
    /\ UNCHANGED <<runs, drops, stats, now, nextRunId, nextDropId, resp, wk, xp, nextXpId, calc, agg, snapshots, xp_table_file>>
    /\ IF character = {} \/ boss = {}
       THEN txn' = [txn EXCEPT ![p] = [pc |-> "done", row |-> NoRow,
                                       request |-> [request EXCEPT !.status = 404]]]
       ELSE IF (CHOOSE b \in boss : TRUE).reset_type = "weekly" /\ Cardinality(existing) > 1
       THEN \* scalar_one_or_none raises MultipleResultsFound
            txn' = [txn EXCEPT ![p] = answered(500)]
       ELSE IF AlreadyCleared(CHOOSE b \in boss : TRUE, is_clear, existing)
       THEN txn' = [txn EXCEPT ![p] = answered(409)]
       ELSE txn' = [txn EXCEPT ![p] =
                       [pc |-> "checked", row |-> boss_run,
                        request |-> [request EXCEPT !.week_start = week_start]]]

\* db.add(boss_run), flush, the drop rows, db.commit(): the rows of the
\* session become visible to the other connections
CommitRecordRun(p) ==
    LET ids == txn[p].request.drop_item_ids
        boss_run == [id |-> nextRunId, character_id |-> txn[p].row.character_id,
                     boss_id |-> txn[p].row.boss_id,
                     cleared_at |-> txn[p].row.cleared_at,
                     week_start |-> txn[p].row.week_start,
                     party_size |-> txn[p].row.party_size,
                     is_clear |-> txn[p].row.is_clear]
        stored == SessionCommit([runs |-> runs \cup {boss_run},
                                 drops |-> AddDrops(drops, nextRunId, ids, nextDropId)])
    IN
    /\ txn[p].pc = "checked"
    /\ nextRunId <= MaxRuns
    /\ nextDropId + ValidCount(ids) <= MaxDrops + 1
    /\ runs' = stored.runs
    /\ drops' = stored.drops
    /\ nextRunId' = nextRunId + 1
    /\ nextDropId' = nextDropId + ValidCount(ids)
    /\ txn' = [txn EXCEPT ![p] =
                  [pc |-> "done", row |-> NoRow,
                   request |-> [txn[p].request EXCEPT !.status = 201,
                                                      !.run_id = nextRunId]]]
    /\ UNCHANGED <<stats, now, resp, wk, xp, nextXpId, calc, agg, snapshots, xp_table_file>>

\* the response goes out and the connection is free again
FinishRecordRun(p) ==
    /\ txn[p].pc = "done"
    /\ txn' = [txn EXCEPT ![p] = NoTxn]
    /\ UNCHANGED <<runs, drops, stats, now, nextRunId, nextDropId, resp, wk, xp, nextXpId, calc, agg, snapshots, xp_table_file>>

-----------------------------------------------------------------------------
(* GET /tracking/weekly *)

\* select(Character).where(user_id == ...), narrowed to character_id if given
SelectCharacters(user_id, character_id) ==
    {c.id : c \in {c \in Characters :
                     /\ c.user_id = user_id
                     /\ (character_id # AllCharacters => c.id = character_id)}}

\* the boss query without the is_active condition
SelectWeeklyBosses_Inactive ==
    {b \in Bosses : b.reset_type = "weekly"}

\* select(Boss).where(reset_type == "weekly", is_active == True)
SelectWeeklyBosses ==
    {b \in Bosses : b.reset_type = "weekly" /\ b.is_active = TRUE}

\* order_by(Boss.sort_order, Boss.name)
OrderBySortOrder(bs) ==
    CHOOSE seq \in [1..Cardinality(bs) -> bs] :
        /\ \A i, j \in 1..Cardinality(bs) : i # j => seq[i] # seq[j]
        /\ \A i, j \in 1..Cardinality(bs) :
              i < j => seq[i].sort_order <= seq[j].sort_order

\* select(BossRun).where(character_id in ..., week_start == ..., is_clear == True)
SelectClears(rs, character_ids, week_start) ==
    {r \in rs : /\ r.character_id \in character_ids
                /\ r.week_start = week_start
                /\ r.is_clear = TRUE}

\* {(c.boss_id, c.character_id): c for c in ...}: one run per key, the last
\* the database returns for it
ClearsDicts(cs) ==
    LET keys == {<<c.boss_id, c.character_id>> : c \in cs}
    IN  {d \in [keys -> cs] :
            \A k \in keys : d[k].boss_id = k[1] /\ d[k].character_id = k[2]}

\* every order in which characters.keys() may come
KeyOrders(ids) ==
    {seq \in [1..Cardinality(ids) -> ids] :
        \A i, j \in 1..Cardinality(ids) : i # j => seq[i] # seq[j]}

\* the crystal value paid in full whatever the party size
CrystalShare_Undivided(boss, run) ==
    IF boss.crystal_meso # <<>> /\ boss.crystal_meso[1] # 0
    THEN boss.crystal_meso[1]
    ELSE 0

\* if boss.crystal_meso: total_meso += boss.crystal_meso // party_size
CrystalShare(boss, run) ==
    IF boss.crystal_meso # <<>> /\ boss.crystal_meso[1] # 0
    THEN boss.crystal_meso[1] \div run.party_size
    ELSE 0

\* the inner loop: the first character of the order that has a clear of the
\* boss, or 0
FirstClearer(boss, order, clears) ==
    LET hits == {i \in 1..Len(order) : <<boss.id, order[i]>> \in DOMAIN clears}
    IN  IF hits = {} THEN 0
        ELSE order[CHOOSE i \in hits : \A j \in hits : i <= j]

\* one WeeklyBossProgressResponse
ProgressEntry(boss, order, clears) ==
    LET char_id == FirstClearer(boss, order, clears)
    IN  [boss_id |-> boss.id, crystal_meso |-> boss.crystal_meso,
         cleared |-> char_id # 0, character_id |-> char_id,
         cleared_at |-> IF char_id # 0 THEN clears[<<boss.id, char_id>>].cleared_at
                        ELSE NoDatetime]

\* total_meso after the loop over the bosses
RECURSIVE TotalMeso(_, _, _)
TotalMeso(bosses, order, clears) ==
    IF bosses = <<>> THEN 0
    ELSE LET boss == Head(bosses)
             char_id == FirstClearer(boss, order, clears)
         IN  (IF char_id # 0
              THEN CrystalShare(boss, clears[<<boss.id, char_id>>])
              ELSE 0)
             + TotalMeso(Tail(bosses), order, clears)

WeeklyProgress(u, character_id) ==
    LET week_start == get_current_week_start(now)
        characters == SelectCharacters(u, character_id)
        bosses == OrderBySortOrder(SelectWeeklyBosses)
        request == [NoResp EXCEPT !.op = "WeeklyProgress", !.user = u,
                                  !.character_id = character_id,
                                  !.week_start = week_start]
    IN
    /\ UNCHANGED <<runs, drops, stats, now, nextRunId, nextDropId, wk, xp, nextXpId, calc, txn, agg, snapshots, xp_table_file>>
    /\ IF characters = {}
       THEN resp' = [request EXCEPT !.status = 200]
       ELSE \E order \in KeyOrders(characters),
               clears \in ClearsDicts(SelectClears(runs, characters, week_start)) :
               LET progress == [k \in 1..Len(bosses) |->
                                   ProgressEntry(bosses[k], order, clears)]
               IN  resp' = [request EXCEPT
                              !.status = 200,
                              !.total_bosses = Len(bosses),
                              !.count = Cardinality({k \in 1..Len(bosses) :
                                                       progress[k].cleared}),
                              !.total_meso = TotalMeso(bosses, order, clears),
                              !.rows = progress]

-----------------------------------------------------------------------------
(* POST /stats/compute *)

RECURSIVE GCD(_, _)
GCD(a, b) == IF b = 0 THEN a ELSE GCD(b, a % b)

\* a float quotient of two small integers, kept as the fraction in lowest terms
Quotient(a, b) == <<a \div GCD(a, b), b \div GCD(a, b)>>

\* drop_count / sample_size if sample_size > 0 else 0.0
DropRate(drop_count, sample_size) ==
    IF sample_size > 0 THEN Quotient(drop_count, sample_size) ELSE <<0, 1>>

\* the count without the is_clear filter
SampleSize_AllRuns(rs, boss_id) ==
    Cardinality({r \in rs : r.boss_id = boss_id})

\* select(func.count()).select_from(BossRun).where(boss_id, is_clear == True)
SampleSize(rs, boss_id) ==
    Cardinality({r \in rs : r.boss_id = boss_id /\ r.is_clear = TRUE})

\* select(func.count()).select_from(BossRunDrop).join(BossRun).where(boss_id, item_id)
DropCount(rs, ds, boss_id, item_id) ==
    Cardinality({d \in ds : /\ d.item_id = item_id
                            /\ \E r \in rs : r.id = d.boss_run_id /\ r.boss_id = boss_id})

\* the loop body inserting a row whether or not the pair has one
UpsertStat_AlwaysInsert(st, entry, rs, ds, today) ==
    LET sample_size == Cardinality({r \in rs : r.boss_id = entry.boss_id /\ r.is_clear})
        drop_count ==
            Cardinality({d \in ds : /\ d.item_id = entry.item_id
                                    /\ \E r \in rs : /\ r.id = d.boss_run_id
                                                     /\ r.boss_id = entry.boss_id})
    IN  st \cup {[id |-> Cardinality(st) + 1, boss_id |-> entry.boss_id,
                  item_id |-> entry.item_id, sample_size |-> sample_size,
                  drop_count |-> drop_count,
                  drop_rate |-> IF sample_size > 0
                                THEN <<drop_count, sample_size>> ELSE <<0, 1>>,
                  last_computed |-> today]}

\* the loop body leaving a pair's row alone once it exists
UpsertStat_KeepExisting(st, entry, rs, ds, today) ==
    LET sample_size == SampleSize(rs, entry.boss_id)
        drop_count == DropCount(rs, ds, entry.boss_id, entry.item_id)
        existing == {x \in st : x.boss_id = entry.boss_id /\ x.item_id = entry.item_id}
    IN  IF existing # {} THEN st
        ELSE st \cup {[id |-> Cardinality(st) + 1, boss_id |-> entry.boss_id,
                       item_id |-> entry.item_id, sample_size |-> sample_size,
                       drop_count |-> drop_count,
                       drop_rate |-> DropRate(drop_count, sample_size),
                       last_computed |-> today]}

\* one pass of the loop body: compute the pair's numbers and upsert its row
UpsertStat(st, entry, rs, ds, today) ==
    LET sample_size == SampleSize(rs, entry.boss_id)
        drop_count == DropCount(rs, ds, entry.boss_id, entry.item_id)
        drop_rate == DropRate(drop_count, sample_size)
        existing == {x \in st : x.boss_id = entry.boss_id /\ x.item_id = entry.item_id}
    IN  IF existing # {}
        THEN (st \ existing) \cup
             {[x EXCEPT !.sample_size = sample_size, !.drop_count = drop_count,
                        !.drop_rate = drop_rate, !.last_computed = today]
                : x \in existing}
        ELSE st \cup {[id |-> Cardinality(st) + 1, boss_id |-> entry.boss_id,
                       item_id |-> entry.item_id, sample_size |-> sample_size,
                       drop_count |-> drop_count, drop_rate |-> drop_rate,
                       last_computed |-> today]}

\* the loop adding the new counts to the ones a row already holds
RECURSIVE ComputeDropRates_Accumulate(_, _, _, _, _)
ComputeDropRates_Accumulate(st, entries, rs, ds, today) ==
    IF entries = <<>> THEN st
    ELSE LET e == Head(entries)
             old == {x \in st : x.boss_id = e.boss_id /\ x.item_id = e.item_id}
             up == UpsertStat(st, e, rs, ds, today)
             acc == {IF x.boss_id = e.boss_id /\ x.item_id = e.item_id /\ old # {}
                     THEN [x EXCEPT !.sample_size =
                              x.sample_size + (CHOOSE o \in old : TRUE).sample_size]
                     ELSE x : x \in up}
         IN  ComputeDropRates_Accumulate(acc, Tail(entries), rs, ds, today)

\* for entry in drop_table_entries: ...
RECURSIVE ComputeDropRates(_, _, _, _, _)
ComputeDropRates(st, entries, rs, ds, today) ==
    IF entries = <<>> THEN st
    ELSE ComputeDropRates(UpsertStat(st, Head(entries), rs, ds, today),
                          Tail(entries), rs, ds, today)

\* a recompute that also clears failed attempts out of the ledger
RecomputeAll_PruneAttempts ==
    /\ stats' = ComputeDropRates(stats, BossDropTable, runs, drops, now)
    /\ runs' = {r \in runs : r.is_clear}
    /\ resp' = [NoResp EXCEPT !.op = "RecomputeAll", !.status = 202,
                              !.count = Len(BossDropTable)]
    /\ UNCHANGED <<drops, now, nextRunId, nextDropId, wk, xp, nextXpId, calc, txn, agg, snapshots, xp_table_file>>

RecomputeAll ==
    /\ stats' = ComputeDropRates(stats, BossDropTable, runs, drops, now)
    /\ resp' = [NoResp EXCEPT !.op = "RecomputeAll", !.status = 202,
                              !.count = Len(BossDropTable)]
    /\ UNCHANGED <<runs, drops, now, nextRunId, nextDropId, wk, xp, nextXpId, calc, txn, agg, snapshots, xp_table_file>>

-----------------------------------------------------------------------------
(* POST /stats/compute, statement by statement: the loop runs in the one    *)
(* transaction of the request's session, which is committed after the loop  *)
(* and rolled back by get_db when a statement raises. Each count query sees *)
(* the ledger rows committed before it started.                             *)

\* no recompute in flight. pc: 0 idle, k in 1..Len(BossDropTable) before the
\* k-th pair, Len + 1 before the commit, Len + 2 answered. session: the
\* drop_rate_stats rows as the session sees them; before: the rows stored
\* when the request came. base and clean: the ledger the first count query
\* saw, and whether every later one saw the same
NoAgg == [pc |-> 0, session |-> {}, before |-> {}, base |-> <<{}, {}>>, clean |-> TRUE, status |-> 0, failed_at |-> 0]

\* select(BossDropTable)
BeginRecompute ==
    /\ agg.pc = 0
    /\ agg' = [NoAgg EXCEPT !.pc = 1, !.session = stats, !.before = stats,
                            !.base = <<runs, drops>>]
    /\ UNCHANGED <<runs, drops, stats, now, nextRunId, nextDropId, resp, wk, xp, nextXpId, calc, txn, snapshots, xp_table_file>>

\* one pass of the loop body, flushed and not committed
RecomputePair ==
    /\ agg.pc \in 1..Len(BossDropTable)
    /\ agg' = [agg EXCEPT
                 !.pc = @ + 1,
                 !.session = UpsertStat(@, BossDropTable[agg.pc], runs, drops, now),
                 !.clean = @ /\ agg.base = <<runs, drops>>]
    /\ UNCHANGED <<runs, drops, stats, now, nextRunId, nextDropId, resp, wk, xp, nextXpId, calc, txn, snapshots, xp_table_file>>

\* a statement of the k-th pass raises: get_db rolls the session back and
\* drop_rate_stats stays as it was before the request
RecomputeFails ==
    /\ agg.pc \in 1..Len(BossDropTable)
    /\ stats' = stats
    /\ agg' = [agg EXCEPT !.pc = Len(BossDropTable) + 2, !.status = 500,
                          !.failed_at = agg.pc]
    /\ UNCHANGED <<runs, drops, now, nextRunId, nextDropId, resp, wk, xp, nextXpId, calc, txn, snapshots, xp_table_file>>

\* await db.commit() after the loop
CommitRecompute ==
    /\ agg.pc = Len(BossDropTable) + 1
    /\ stats' = agg.session
    /\ agg' = [agg EXCEPT !.pc = @ + 1, !.status = 202]
    /\ UNCHANGED <<runs, drops, now, nextRunId, nextDropId, resp, wk, xp, nextXpId, calc, txn, snapshots, xp_table_file>>

\* the response goes out
FinishRecompute ==
    /\ agg.pc = Len(BossDropTable) + 2
    /\ agg' = NoAgg
    /\ UNCHANGED <<runs, drops, stats, now, nextRunId, nextDropId, resp, wk, xp, nextXpId, calc, txn, snapshots, xp_table_file>>

-----------------------------------------------------------------------------
(* GET /stats/boss/{boss_id} and GET /stats/item/{item_id} *)

\* min_sample_size: int = Query(10, ge=1)
DefaultMinSampleSize == 10

\* the float a is at least the float b
RateGE(a, b) == a[1] * b[2] >= b[1] * a[2]

\* order_by(DropRateStats.drop_rate.desc()): every order of the rows the
\* database may return, rows of equal rate in either order
OrderByDropRateDesc(rows) ==
    {seq \in [1..Cardinality(rows) -> rows] :
        /\ \A i, j \in 1..Cardinality(rows) : i # j => seq[i] # seq[j]
        /\ \A i, j \in 1..Cardinality(rows) :
              i < j => RateGE(seq[i].drop_rate, seq[j].drop_rate)}

\* the boss query without the sample-size condition
SelectBossStats_NoFilter(st, boss_id, min_sample_size) ==
    {x \in st : x.boss_id = boss_id}

\* select(DropRateStats).where(boss_id == ..., sample_size >= min_sample_size)
SelectBossStats(st, boss_id, min_sample_size) ==
    {x \in st : x.boss_id = boss_id /\ x.sample_size >= min_sample_size}

\* select(DropRateStats).where(item_id == ..., sample_size >= min_sample_size)
SelectItemStats(st, item_id, min_sample_size) ==
    {x \in st : x.item_id = item_id /\ x.sample_size >= min_sample_size}

GetBossRates(boss_id, min_sample_size) ==
    LET boss == SelectBoss(boss_id)
        total_runs == Cardinality({r \in runs : r.boss_id = boss_id})
        request == [NoResp EXCEPT !.op = "GetBossRates", !.boss_id = boss_id,
                                  !.min_sample_size = min_sample_size]
    IN
    /\ UNCHANGED <<runs, drops, stats, now, nextRunId, nextDropId, wk, xp, nextXpId, calc, txn, agg, snapshots, xp_table_file>>
    /\ IF boss = {}
       THEN resp' = [request EXCEPT !.status = 404]
       ELSE \E rows \in OrderByDropRateDesc(
                            SelectBossStats(stats, boss_id, min_sample_size)) :
               resp' = [request EXCEPT !.status = 200, !.count = total_runs,
                                       !.rows = rows]

GetItemRates(item_id, min_sample_size) ==
    LET item == SelectItem(item_id)
        request == [NoResp EXCEPT !.op = "GetItemRates", !.item_id = item_id,
                                  !.min_sample_size = min_sample_size]
    IN
    /\ UNCHANGED <<runs, drops, stats, now, nextRunId, nextDropId, wk, xp, nextXpId, calc, txn, agg, snapshots, xp_table_file>>
    /\ IF item = {}
       THEN resp' = [request EXCEPT !.status = 404]
       ELSE \E rows \in OrderByDropRateDesc(
                            SelectItemStats(stats, item_id, min_sample_size)) :
               resp' = [request EXCEPT !.status = 200, !.rows = rows]

-----------------------------------------------------------------------------
(* POST /api/xp, PUT /api/xp/{entry_id}, DELETE /api/xp/{entry_id} *)

\* bool(x) of an Optional[int] and of an Optional[Decimal]
TruthyInt(opt) == opt # None /\ opt[1] # 0
TruthyDec(opt) == opt # None /\ opt[1] # DecZero

\* (x or Decimal('0')) of an Optional[Decimal]
OrZero(opt) == IF TruthyDec(opt) THEN opt[1] ELSE DecZero

\* the query missing the date condition's user: entries of other users
ExistingEntry_OtherUser(xs, user_id, entry_date) ==
    {e \in xs : e.user_id # user_id /\ e.entry_date = entry_date}

\* select(XPEntry).where(user_id == ..., entry_date == ...)
ExistingEntry(xs, user_id, entry_date) ==
    {e \in xs : e.user_id = user_id /\ e.entry_date = entry_date}

\* select(XPEntry).where(id == entry_id, user_id == ...)
SelectEntry(xs, entry_id, user_id) ==
    {e \in xs : e.id = entry_id /\ e.user_id = user_id}

CreateXPEntry(u, data) ==
    LET request == [NoResp EXCEPT !.op = "CreateXPEntry", !.user = u,
                                  !.entry_date = data.entry_date, !.data = <<data>>]
        xp_gained == calculate_xp_gained(data.level, data.old_percent, data.new_percent)
        epic_xp == IF data.epic_dungeon
                   THEN get_epic_dungeon_xp(data.level, data.epic_dungeon_multiplier)
                   ELSE None
        epic_dungeon_xp_trillions == IF epic_xp # None THEN <<epic_xp[1].trillions>> ELSE None
        epic_dungeon_xp_billions == IF epic_xp # None THEN <<epic_xp[1].billions>> ELSE None
        existing == ExistingEntry(xp, u, data.entry_date)
        entry == [id |-> nextXpId, user_id |-> u, entry_date |-> data.entry_date,
                  level |-> data.level, old_percent |-> data.old_percent,
                  new_percent |-> data.new_percent,
                  xp_gained_trillions |-> xp_gained.trillions,
                  xp_gained_billions |-> xp_gained.billions,
                  epic_dungeon |-> data.epic_dungeon,
                  epic_dungeon_xp_trillions |-> epic_dungeon_xp_trillions,
                  epic_dungeon_xp_billions |-> epic_dungeon_xp_billions,
                  epic_dungeon_multiplier |-> data.epic_dungeon_multiplier,
                  total_daily_xp_trillions |->
                      DecAdd(xp_gained.trillions, OrZero(epic_dungeon_xp_trillions)),
                  total_daily_xp_billions |->
                      DecAdd(xp_gained.billions, OrZero(epic_dungeon_xp_billions))]
    IN
    /\ UNCHANGED <<runs, drops, stats, now, nextRunId, nextDropId, wk, calc, txn, agg, snapshots, xp_table_file>>
    /\ IF DecLE(data.new_percent, data.old_percent)
       THEN /\ resp' = [request EXCEPT !.status = 400]
            /\ UNCHANGED <<xp, nextXpId>>
       ELSE IF xp_gained.error
       THEN \* the ValueError is not caught
            /\ resp' = [request EXCEPT !.status = 500]
            /\ UNCHANGED <<xp, nextXpId>>
       ELSE IF data.epic_dungeon /\ epic_xp = None
       THEN /\ resp' = [request EXCEPT !.status = 400]
            /\ UNCHANGED <<xp, nextXpId>>
       ELSE IF existing # {}
       THEN /\ resp' = [request EXCEPT !.status = 400]
            /\ UNCHANGED <<xp, nextXpId>>
       ELSE /\ nextXpId <= MaxXp
            /\ xp' = xp \cup {entry}
            /\ nextXpId' = nextXpId + 1
            /\ resp' = [request EXCEPT !.status = 201, !.entry_id = nextXpId]

\* the XPEntryUpdate fields copied into the row
ApplyUpdate(entry, data) ==
    [entry EXCEPT
        !.level = IF data.level # None THEN data.level[1] ELSE @,
        !.old_percent = IF data.old_percent # None THEN data.old_percent[1] ELSE @,
        !.new_percent = IF data.new_percent # None THEN data.new_percent[1] ELSE @,
        !.epic_dungeon = IF data.epic_dungeon # None THEN data.epic_dungeon[1] ELSE @,
        !.epic_dungeon_multiplier =
            IF data.epic_dungeon_multiplier # None THEN data.epic_dungeon_multiplier[1]
            ELSE @]

\* if any([data.level, data.old_percent, data.new_percent])
RecalculateXP(data) ==
    TruthyInt(data.level) \/ TruthyDec(data.old_percent) \/ TruthyDec(data.new_percent)

\* the row after "Recalculate XP if percentages or level changed"
WithGained(entry, xp_gained) ==
    [entry EXCEPT !.xp_gained_trillions = xp_gained.trillions,
                  !.xp_gained_billions = xp_gained.billions]

\* the row after "Recalculate Epic Dungeon XP if applicable"
WithEpic(entry) ==
    IF entry.epic_dungeon
    THEN LET epic_xp == get_epic_dungeon_xp(entry.level, entry.epic_dungeon_multiplier)
         IN  IF epic_xp # None
             THEN [entry EXCEPT !.epic_dungeon_xp_trillions = <<epic_xp[1].trillions>>,
                                !.epic_dungeon_xp_billions = <<epic_xp[1].billions>>]
             ELSE [entry EXCEPT !.epic_dungeon_xp_trillions = None,
                                !.epic_dungeon_xp_billions = None]
    ELSE entry

\* the row after a total recomputed in billions only
WithTotal_BillionsOnly(entry) ==
    [entry EXCEPT
        !.total_daily_xp_billions =
            DecAdd(entry.xp_gained_billions, OrZero(entry.epic_dungeon_xp_billions))]

\* the row after "Recalculate total"
WithTotal(entry) ==
    [entry EXCEPT
        !.total_daily_xp_trillions =
            DecAdd(entry.xp_gained_trillions, OrZero(entry.epic_dungeon_xp_trillions)),
        !.total_daily_xp_billions =
            DecAdd(entry.xp_gained_billions, OrZero(entry.epic_dungeon_xp_billions))]

UpdateXPEntry(u, entry_id, data) ==
    LET request == [NoResp EXCEPT !.op = "UpdateXPEntry", !.user = u,
                                  !.entry_id = entry_id, !.data = <<data>>]
        found == SelectEntry(xp, entry_id, u)
    IN
    /\ UNCHANGED <<runs, drops, stats, now, nextRunId, nextDropId, wk, nextXpId, calc, txn, agg, snapshots, xp_table_file>>
    /\ IF found = {}
       THEN /\ resp' = [request EXCEPT !.status = 404]
            /\ UNCHANGED xp
       ELSE LET old == CHOOSE e \in found : TRUE
                entry == ApplyUpdate(old, data)
                xp_gained == calculate_xp_gained(entry.level, entry.old_percent,
                                                 entry.new_percent)
            IN  IF RecalculateXP(data) /\ xp_gained.error
                THEN /\ resp' = [request EXCEPT !.status = 500]
                     /\ UNCHANGED xp
                ELSE /\ xp' = (xp \ {old}) \cup
                              {WithTotal(WithEpic(
                                  IF RecalculateXP(data) THEN WithGained(entry, xp_gained)
                                  ELSE entry))}
                     /\ resp' = [request EXCEPT !.status = 200,
                                                !.entry_date = old.entry_date]

DeleteXPEntry(u, entry_id) ==
    LET request == [NoResp EXCEPT !.op = "DeleteXPEntry", !.user = u,
                                  !.entry_id = entry_id]
        found == SelectEntry(xp, entry_id, u)
    IN
    /\ UNCHANGED <<runs, drops, stats, now, nextRunId, nextDropId, wk, nextXpId, calc, txn, agg, snapshots, xp_table_file>>
    /\ IF found = {}
       THEN /\ resp' = [request EXCEPT !.status = 404]
            /\ UNCHANGED xp
       ELSE /\ xp' = xp \ found
            /\ resp' = [request EXCEPT !.status = 204]

-----------------------------------------------------------------------------
(* POST /api/character-xp/snapshot and GET /api/character-xp/overview *)


\* Decimal.__truediv__ for operands whose quotient terminates within
\* DivDigits digits, as it does for every pair the model divides
DecDiv(a, b) ==
    LET k == CHOOSE n \in 0..DivDigits :
                 /\ (a[1] * Pow10(n)) % b[1] = 0
                 /\ \A j \in 0..(n - 1) : (a[1] * Pow10(j)) % b[1] # 0
    IN  DecNorm(<<(a[1] * Pow10(k)) \div b[1], a[2] - b[2] - k>>)

\* Decimal.__lt__
DecLT(a, b) == ~DecLE(b, a)

\* load_xp_table(): the table, or FileNotFoundError (None) without the file
LoadXpTable == IF xp_table_file THEN <<required_xp_table>> ELSE None

\* the sum of 'actual' over the levels of a set
RECURSIVE SumActual(_, _)
SumActual(table, levels) ==
    IF levels = {} THEN DecZero
    ELSE LET l == CHOOSE l \in levels : TRUE
         IN  DecAdd(table[l], SumActual(table, levels \ {l}))

\* cumulative_xp[lvl]: the XP needed to reach the level from the table's first
CumulativeXp(table, lvl) == SumActual(table, {l \in DOMAIN table : l < lvl})

\* select(CharacterXPSnapshot).where(character_id == ..., snapshot_date == ...)
SelectSnapshot(ss, character_id, snapshot_date) ==
    {s \in ss : s.character_id = character_id /\ s.snapshot_date = snapshot_date}

\* order_by(desc(snapshot_date)).limit(1): None or the latest snapshot
LatestSnapshot(ss, character_id) ==
    LET mine == {s \in ss : s.character_id = character_id}
    IN  IF mine = {} THEN None
        ELSE <<CHOOSE s \in mine : \A t \in mine : t.snapshot_date <= s.snapshot_date>>

CreateSnapshot(u, data) ==
    LET request == [NoResp EXCEPT !.op = "CreateSnapshot", !.user = u,
                                  !.character_id = data.character_id,
                                  !.entry_date = data.snapshot_date, !.data = <<data>>]
        character == SelectCharacter(data.character_id, u)
        existing == SelectSnapshot(snapshots, data.character_id, data.snapshot_date)
        snapshot == [character_id |-> data.character_id,
                     snapshot_date |-> data.snapshot_date,
                     total_xp |-> data.total_xp, level |-> data.level]
    IN
    /\ UNCHANGED <<runs, drops, stats, now, nextRunId, nextDropId, wk, xp, nextXpId, calc, txn, agg, xp_table_file>>
    /\ IF character = {}
       THEN /\ resp' = [request EXCEPT !.status = 404]
            /\ UNCHANGED snapshots
       ELSE IF existing # {}
       THEN /\ snapshots' = (snapshots \ existing) \cup
                   {[s EXCEPT !.total_xp = data.total_xp,
                              !.level = IF data.level # None THEN data.level ELSE @]
                      : s \in existing}
            /\ resp' = [request EXCEPT !.status = 201]
       ELSE /\ snapshots' = snapshots \cup {snapshot}
            /\ resp' = [request EXCEPT !.status = 201]

\* progress_percent of one character: the percentage into the level of the
\* latest snapshot when the table is loaded and has the level; 100 when the
\* first condition fails and the character has a snapshot; None otherwise
ProgressPercent(xp_table, latest_snapshot) ==
    IF xp_table # None /\ latest_snapshot # None /\ TruthyInt(latest_snapshot[1].level)
    THEN LET lvl == latest_snapshot[1].level[1]
         IN  IF lvl \in DOMAIN xp_table[1]
             THEN LET xp_required == xp_table[1][lvl]
                      start_xp == CumulativeXp(xp_table[1], lvl)
                      within_level == DecSub(latest_snapshot[1].total_xp, start_xp)
                      pct == DecMul(DecDiv(within_level, xp_required), DecInt(100))
                  IN  IF DecLT(pct, DecZero) THEN <<DecZero>>
                      ELSE IF DecLT(DecInt(100), pct) THEN <<DecInt(100)>>
                      ELSE <<pct>>
             ELSE None
    ELSE IF latest_snapshot # None THEN <<DecInt(100)>>
    ELSE None

\* one CharacterXPOverview; of its fields the model keeps those that depend
\* on the latest snapshot and on the table
Overview(character_id) ==
    LET latest_snapshot == LatestSnapshot(snapshots, character_id)
        recent_snapshots == {s \in snapshots : /\ s.character_id = character_id
                                               /\ s.snapshot_date >= now - 7}
    IN  [character_id |-> character_id,
         level |-> IF latest_snapshot # None THEN latest_snapshot[1].level ELSE None,
         current_xp |-> IF latest_snapshot # None THEN <<latest_snapshot[1].total_xp>>
                        ELSE None,
         progress_percent |-> ProgressPercent(LoadXpTable, latest_snapshot),
         days_tracked |-> Cardinality(recent_snapshots)]

\* the user's characters in the order of the query
OrderCharacters(ids) ==
    CHOOSE seq \in [1..Cardinality(ids) -> ids] :
        \A i, j \in 1..Cardinality(ids) : i < j => seq[i] < seq[j]

XPOverview(u) ==
    LET characters == OrderCharacters(SelectCharacters(u, AllCharacters))
    IN
    /\ resp' = [NoResp EXCEPT !.op = "XPOverview", !.user = u, !.status = 200,
                              !.rows = [k \in 1..Len(characters) |->
                                           Overview(characters[k])]]
    /\ UNCHANGED <<runs, drops, stats, now, nextRunId, nextDropId, wk, xp, nextXpId, calc, txn, agg, snapshots, xp_table_file>>

-----------------------------------------------------------------------------
(* The delivery of a response *)

\* the server is idle: no response is waiting to be delivered
Idle == resp = NoResp

\* the response goes out; the next request may come
Reply ==
    /\ ~Idle
    /\ resp' = NoResp
    /\ UNCHANGED <<runs, drops, stats, now, nextRunId, nextDropId, wk, xp, nextXpId, calc, txn, agg, snapshots, xp_table_file>>

-----------------------------------------------------------------------------
(* Inputs of the XP entry requests *)

\* 0.00, 10.00 and 15.00 percent
XpPercents == {Percent(0), Percent(1000), Percent(1500)}

\* Optional[T]: None or a value of the set
Optional(S) == {None} \cup {<<v>> : v \in S}

XpIds == 1..MaxXp

\* XPEntryCreate bodies for one date: level 250 has no epic dungeon entry,
\* level 260 has one
XPEntryCreates(dates, percents) ==
    [entry_date : dates, level : {250, 260}, old_percent : percents,
     new_percent : percents, epic_dungeon : BOOLEAN,
     epic_dungeon_multiplier : {1, 4}]

\* XPEntryUpdate bodies
XPEntryUpdates ==
    [level : Optional({250, 260}), old_percent : Optional(XpPercents),
     new_percent : Optional(XpPercents), epic_dungeon : Optional(BOOLEAN),
     epic_dungeon_multiplier : Optional({8})]

-----------------------------------------------------------------------------
(* The run ledger and the drop ledger, one request at a time *)

NoWeek == [t1 |-> NoDatetime, t2 |-> NoDatetime, w1 |-> 0, w2 |-> 0, done |-> FALSE]

BossIds == {b.id : b \in Bosses} \cup {UnknownBoss}
ItemIds == {i.id : i \in Items} \cup {UnknownItem}
RunIds == 1..MaxRuns


\* drop_item_ids of a request: lists over ids of length up to n
DropLists(ids, n) == UNION {[1..k -> ids] : k \in 0..n}

\* cleared_at of a request: absent, Saturday 2024-01-06 12:00 UTC (the week
\* of 2024-01-04), or Thursday 2024-01-11 00:00 UTC (the week after)
ClearedAts == {NoDatetime, Datetime(738891, 12, 0), Datetime(738896, 0, 0)}

Init ==
    /\ runs = {}
    /\ drops = {}
    /\ stats = {}
    /\ now = Day0
    /\ nextRunId = 1
    /\ nextDropId = 1
    /\ resp = NoResp
    /\ wk = NoWeek
    /\ xp = {}
    /\ nextXpId = 1
    /\ calc = NoCalc
    /\ txn = NoTxns
    /\ agg = NoAgg
    /\ snapshots = {}
    /\ xp_table_file = TRUE

\* requests of users 1 and 2 for their characters 1 and 3 and for each other's
Next ==
    \/ /\ Idle
       /\ \E u \in Users, c \in {1, 3}, b \in {1, 2}, at \in ClearedAts,
             ok \in BOOLEAN : RecordRun(u, c, b, at, 1, ok, <<>>, 0)
    \/ /\ Idle
       /\ \E u \in Users, id \in RunIds : DeleteRun(u, id)
    \/ /\ Idle
       /\ \E id \in RunIds : AddDrop(1, id, 1, 2)
    \/ Reply

Spec == Init /\ [][Next]_vars

-----------------------------------------------------------------------------
(* The drop ledger and the transaction of POST /tracking/runs: every way a  *)
(* request can fail. Character 1 logs clears, character 3 failed attempts.  *)

NextDrops ==
    \/ /\ Idle
       /\ \E u \in Users, c \in {1, 3, UnknownCharacter}, b \in {1, UnknownBoss},
             ids \in DropLists({1, UnknownItem}, MaxDropIds) :
             \E failAt \in 0..Len(ids), ok \in {c # 3} :
                RecordRun(u, c, b, NoDatetime, 1, ok, ids, failAt)
    \/ /\ Idle
       /\ \E u \in Users, id \in RunIds : GetRun(u, id)
    \/ /\ Idle
       /\ \E u \in Users, id \in RunIds : DeleteRun(u, id)
    \/ /\ Idle
       /\ \E u \in Users, id \in RunIds, i \in {1, UnknownItem} : AddDrop(u, id, i, 2)
    \/ Reply

SpecDrops == Init /\ [][NextDrops]_vars

-----------------------------------------------------------------------------
(* The aggregator over a ledger written by user 1 *)

NextStats ==
    \/ /\ Idle
       /\ \E b \in {1, 2}, ok \in BOOLEAN, ids \in DropLists({1, 2}, 1) :
             RecordRun(1, 1, b, NoDatetime, 1, ok, ids, 0)
    \/ /\ Idle
       /\ \E id \in RunIds : DeleteRun(1, id)
    \/ /\ Idle
       /\ \E id \in RunIds, i \in {1, 2} : AddDrop(1, id, i, 1)
    \/ /\ Idle
       /\ RecomputeAll
    \/ Reply

SpecStats == Init /\ [][NextStats]_vars

-----------------------------------------------------------------------------
(* The aggregator run again and again while the clock advances: a second    *)
(* POST /stats/compute may arrive before any write                          *)

\* a day passes: datetime.now(timezone.utc) moves on
Tick(limit) ==
    /\ now < Day0 + limit
    /\ now' = now + 1
    /\ UNCHANGED <<runs, drops, stats, nextRunId, nextDropId, resp, wk, xp, nextXpId, calc, txn, agg, snapshots, xp_table_file>>

NextRecompute ==
    \/ /\ Idle
       /\ \E b \in {1, 2}, ok \in BOOLEAN, ids \in DropLists({1}, 1) :
             RecordRun(1, 1, b, NoDatetime, 1, ok, ids, 0)
    \/ /\ Idle
       /\ \E id \in RunIds : DeleteRun(1, id)
    \/ /\ Idle \/ resp.op = "RecomputeAll"
       /\ RecomputeAll
    \/ Tick(MaxTick)
    \/ Reply

SpecRecompute == Init /\ [][NextRecompute]_vars

-----------------------------------------------------------------------------
(* The rate queries over stats tables of many sample sizes: the rows a      *)
(* recompute leaves when a boss has no, 10 or 50 clears                     *)

SampleSizes == {0, DefaultMinSampleSize, 50}
DropCounts == {0, 5, 10}
MinSampleSizes == {1, DefaultMinSampleSize, 50}

\* the table after a recompute over a ledger with sample[b] clears of boss b
\* and count[k] drops for the k-th pair of boss_drop_table
StatsTable(sample, count) ==
    {[id |-> k, boss_id |-> BossDropTable[k].boss_id,
      item_id |-> BossDropTable[k].item_id,
      sample_size |-> sample[BossDropTable[k].boss_id],
      drop_count |-> count[k],
      drop_rate |-> DropRate(count[k], sample[BossDropTable[k].boss_id]),
      last_computed |-> Day0] : k \in 1..Len(BossDropTable)}

InitRates ==
    /\ runs = {}
    /\ drops = {}
    /\ stats \in {StatsTable(sample, count) :
                     sample \in [{b.id : b \in Bosses} -> SampleSizes],
                     count \in [1..Len(BossDropTable) -> DropCounts]}
    /\ now = Day0
    /\ nextRunId = 1
    /\ nextDropId = 1
    /\ resp = NoResp
    /\ wk = NoWeek
    /\ xp = {}
    /\ nextXpId = 1
    /\ calc = NoCalc
    /\ txn = NoTxns
    /\ agg = NoAgg
    /\ snapshots = {}
    /\ xp_table_file = TRUE

NextRates ==
    \/ /\ Idle
       /\ \E b \in BossIds, n \in MinSampleSizes : GetBossRates(b, n)
    \/ /\ Idle
       /\ \E i \in ItemIds, n \in MinSampleSizes : GetItemRates(i, n)
    \/ Reply

SpecRates == InitRates /\ [][NextRates]_vars

-----------------------------------------------------------------------------
(* The weekly summary over a ledger written by user 1 for characters 1 and  *)
(* 2: character 1 clears alone, character 2 in a party of two               *)

NextWeekly ==
    \/ /\ Idle
       /\ \E c \in {1, 2}, b \in {1, 2, 3, 4}, ok \in BOOLEAN,
             at \in {NoDatetime, Datetime(738896, 0, 0)} :
             RecordRun(1, c, b, at, c, ok, <<>>, 0)
    \/ /\ Idle
       /\ \E u \in {1, 2, NewUser}, c \in {AllCharacters, 1, 2} : WeeklyProgress(u, c)
    \/ Reply

SpecWeekly == Init /\ [][NextWeekly]_vars

-----------------------------------------------------------------------------
(* The weekly summary while the clock runs from one Thursday to the next:   *)
(* user 1 logs runs of character 1 without cleared_at and deletes them      *)

NextWeekClock ==
    \/ /\ Idle
       /\ \E b \in {1, 3}, ok \in BOOLEAN :
             RecordRun(1, 1, b, NoDatetime, 1, ok, <<>>, 0)
    \/ /\ Idle
       /\ \E id \in RunIds : DeleteRun(1, id)
    \/ /\ Idle
       /\ \E c \in {AllCharacters, 1} : WeeklyProgress(1, c)
    \/ Tick(MaxDays)
    \/ Reply

SpecWeekClock == Init /\ [][NextWeekClock]_vars

-----------------------------------------------------------------------------
(* The week-start calculator on its own: two inputs, then their results *)

\* datetimes and plain dates from WeekLo on: midnight and 23:00, at UTC and
\* at the offsets -5 h and +9 h
WeekInputs ==
    {Datetime(d, h, off) : d \in WeekLo..(WeekLo + WeekSpan), h \in {0, 23},
                           off \in {-5, 0, 9}}
    \cup {Date(d) : d \in WeekLo..(WeekLo + WeekSpan)}

InitWeek ==
    /\ runs = {}
    /\ drops = {}
    /\ stats = {}
    /\ now = Day0
    /\ nextRunId = 1
    /\ nextDropId = 1
    /\ resp = NoResp
    /\ wk \in {[NoWeek EXCEPT !.t1 = a, !.t2 = b] : a, b \in WeekInputs}
    /\ xp = {}
    /\ nextXpId = 1
    /\ calc = NoCalc
    /\ txn = NoTxns
    /\ agg = NoAgg
    /\ snapshots = {}
    /\ xp_table_file = TRUE

WeekStart ==
    /\ ~wk.done
    /\ wk' = [wk EXCEPT !.w1 = get_week_start_for_date(wk.t1),
                        !.w2 = get_week_start_for_date(wk.t2),
                        !.done = TRUE]
    /\ UNCHANGED <<runs, drops, stats, now, nextRunId, nextDropId, resp, xp, nextXpId, calc, txn, agg, snapshots, xp_table_file>>

NextWeek == WeekStart

SpecWeek == InitWeek /\ [][NextWeek]_vars

-----------------------------------------------------------------------------
(* The week-start calculator on pairs of cleared_at values that may denote  *)
(* the same instant: 01:00 at +09:00 is 16:00 UTC of the day before         *)

InstantInputs ==
    {Datetime(d, h, off) : d \in WeekLo..(WeekLo + WeekSpan), h \in {1, 16},
                           off \in {0, 9}}

InitInstant ==
    /\ runs = {}
    /\ drops = {}
    /\ stats = {}
    /\ now = Day0
    /\ nextRunId = 1
    /\ nextDropId = 1
    /\ resp = NoResp
    /\ wk \in {[NoWeek EXCEPT !.t1 = a, !.t2 = b] : a, b \in InstantInputs}
    /\ xp = {}
    /\ nextXpId = 1
    /\ calc = NoCalc
    /\ txn = NoTxns
    /\ agg = NoAgg
    /\ snapshots = {}
    /\ xp_table_file = TRUE

NextInstant == WeekStart

SpecInstant == InitInstant /\ [][NextInstant]_vars

-----------------------------------------------------------------------------
(* The XP entry of one user and one date through every create and update   *)

NextXP ==
    \/ /\ Idle
       /\ \E data \in XPEntryCreates({Day0}, XpPercents) : CreateXPEntry(1, data)
    \/ /\ Idle
       /\ \E u \in Users, id \in XpIds, data \in XPEntryUpdates :
             UpdateXPEntry(u, id, data)
    \/ /\ Idle
       /\ \E u \in Users, id \in XpIds : DeleteXPEntry(u, id)
    \/ Reply

SpecXP == Init /\ [][NextXP]_vars

-----------------------------------------------------------------------------
(* The XP entries of two users over two dates *)

NextXPDates ==
    \/ /\ Idle
       /\ \E u \in Users,
             data \in {d \in XPEntryCreates({Day0, Day0 + 1}, {Percent(1000), Percent(1500)}) :
                          ~d.epic_dungeon /\ d.epic_dungeon_multiplier = 1} :
             CreateXPEntry(u, data)
    \/ /\ Idle
       /\ \E u \in Users, id \in XpIds,
             data \in {d \in XPEntryUpdates :
                          /\ d.old_percent = None /\ d.new_percent = None
                          /\ d.epic_dungeon = None /\ d.epic_dungeon_multiplier = None} :
             UpdateXPEntry(u, id, data)
    \/ /\ Idle
       /\ \E u \in Users, id \in XpIds : DeleteXPEntry(u, id)
    \/ Reply

SpecXPDates == Init /\ [][NextXPDates]_vars

-----------------------------------------------------------------------------
(* The XP overview with and without the table file *)

\* CharacterXPSnapshotCreate bodies: yesterday's and today's snapshot,
\* 200,000,000,000 or 2,000,000,000,000 XP in total, the level given or not
SnapshotCreates ==
    [character_id : {1, 3}, snapshot_date : {Day0 - 1, Day0},
     total_xp : {<<2, 11>>, <<2, 12>>}, level : Optional({250, 260})]

InitOverview ==
    /\ runs = {}
    /\ drops = {}
    /\ stats = {}
    /\ now = Day0
    /\ nextRunId = 1
    /\ nextDropId = 1
    /\ resp = NoResp
    /\ wk = NoWeek
    /\ xp = {}
    /\ nextXpId = 1
    /\ calc = NoCalc
    /\ txn = NoTxns
    /\ agg = NoAgg
    /\ snapshots = {}
    /\ xp_table_file \in BOOLEAN

NextOverview ==
    \/ /\ Idle
       /\ \E u \in Users, data \in SnapshotCreates : CreateSnapshot(u, data)
    \/ /\ Idle
       /\ \E u \in {1, 2, NewUser} : XPOverview(u)
    \/ Reply

SpecOverview == InitOverview /\ [][NextOverview]_vars

-----------------------------------------------------------------------------
(* The XP calculator on its own: one level and percent pair, then the gain *)

\* hundredths of a percent: 0.00, 0.01, 10.00, 15.00, 99.99 and 100.00
PercentInputs == {Percent(h) : h \in {0, 1, 1000, 1500, 9999, 10000}}

LevelInputs == DOMAIN required_xp_table \cup {LevelOutOfTable}

InitGained ==
    /\ runs = {}
    /\ drops = {}
    /\ stats = {}
    /\ now = Day0
    /\ nextRunId = 1
    /\ nextDropId = 1
    /\ resp = NoResp
    /\ wk = NoWeek
    /\ xp = {}
    /\ nextXpId = 1
    /\ calc \in {[NoCalc EXCEPT !.level = l, !.old_percent = a, !.new_percent = b] :
                    l \in LevelInputs, a, b \in PercentInputs}
    /\ txn = NoTxns
    /\ agg = NoAgg
    /\ snapshots = {}
    /\ xp_table_file = TRUE

GainedXP ==
    /\ ~calc.done
    /\ calc' = [calc EXCEPT !.done = TRUE,
                            !.result = calculate_xp_gained(calc.level, calc.old_percent,
                                                           calc.new_percent)]
    /\ UNCHANGED <<runs, drops, stats, now, nextRunId, nextDropId, resp, wk, xp, nextXpId, txn, agg, snapshots, xp_table_file>>

NextGained == GainedXP

SpecGained == InitGained /\ [][NextGained]_vars

-----------------------------------------------------------------------------
(* Every endpoint that reads or writes the ledger or the stats table, over  *)
(* a ledger written by user 1                                               *)

NextFrame ==
    \/ /\ Idle
       /\ \E b \in {1, 2}, ok \in BOOLEAN, ids \in DropLists({1}, 1) :
             RecordRun(1, 1, b, NoDatetime, 1, ok, ids, 0)
    \/ /\ Idle
       /\ \E u \in Users, id \in RunIds : DeleteRun(u, id)
    \/ /\ Idle
       /\ \E id \in RunIds, i \in {1, UnknownItem} : AddDrop(1, id, i, 1)
    \/ /\ Idle
       /\ \E id \in RunIds : GetRun(1, id)
    \/ /\ Idle
       /\ WeeklyProgress(1, AllCharacters)
    \/ /\ Idle
       /\ \E b \in {1, UnknownBoss} : GetBossRates(b, 1)
    \/ /\ Idle
       /\ GetItemRates(1, 1)
    \/ /\ Idle
       /\ RecomputeAll
    \/ Reply

SpecFrame == Init /\ [][NextFrame]_vars

-----------------------------------------------------------------------------
(* The aggregator step by step while user 1 writes the ledger of boss 1:    *)
(* runs are logged and deleted, and drops of item 1 added to the first run  *)

NextAggregate ==
    \/ /\ Idle
       /\ \E ok \in BOOLEAN : RecordRun(1, 1, 1, NoDatetime, 1, ok, <<>>, 0)
    \/ /\ Idle
       /\ \E id \in RunIds : DeleteRun(1, id)
    \/ /\ Idle
       /\ AddDrop(1, 1, 1, 1)
    \/ Reply
    \/ BeginRecompute
    \/ RecomputePair
    \/ RecomputeFails
    \/ CommitRecompute
    \/ FinishRecompute

SpecAggregate == Init /\ [][NextAggregate]_vars

-----------------------------------------------------------------------------
(* Two POST /tracking/runs requests of user 1 for character 1 at the same   *)
(* time, for the weekly boss 1 or the daily boss 2                          *)

NextRace ==
    \/ \E p \in Slots, b \in {1, 2}, ok \in BOOLEAN :
          BeginRecordRun(p, 1, 1, b, NoDatetime, 1, ok, <<>>)
    \/ \E p \in Slots : CommitRecordRun(p)
    \/ \E p \in Slots : FinishRecordRun(p)

SpecRace == Init /\ [][NextRace]_vars

-----------------------------------------------------------------------------
(* Properties of the run ledger *)

IsWeekly(boss_id) == \E b \in Bosses : b.id = boss_id /\ b.reset_type = "weekly"

\* runs of one character, boss and reset week
SameTriple(r1, r2) ==
    /\ r1.character_id = r2.character_id
    /\ r1.boss_id = r2.boss_id
    /\ r1.week_start = r2.week_start

\* C1: for every weekly boss there is at most one BossRun row with
\* is_clear = true for each (character_id, boss_id, week_start).
C1_OneClearPerWeek ==
    \A r1, r2 \in runs :
        (IsWeekly(r1.boss_id) /\ r1.is_clear /\ r2.is_clear /\ SameTriple(r1, r2))
            => r1 = r2

\* a second clear of the triple was just refused, and the ledger holds the
\* clear next to an earlier attempt of the same triple and a clear of the
\* same character and boss in another week
C1_Witness ==
    /\ resp.op = "RecordRun" /\ resp.status = 409 /\ resp.is_clear
    /\ \E r1, r2 \in runs :
          /\ IsWeekly(r1.boss_id) /\ r1.is_clear /\ ~r2.is_clear
          /\ SameTriple(r1, r2)
          /\ r1.week_start = resp.week_start
          /\ r1.character_id = resp.character_id /\ r1.boss_id = resp.boss_id

\* C2: RecordRun with is_clear = true for a weekly boss, when a clear of the
\* same (character, boss, week_start) exists, is answered 409 and adds no
\* BossRun row and no BossRunDrop row.
C2_SecondClearConflicts ==
    [][ ( /\ Idle
          /\ resp'.op = "RecordRun"
          /\ resp'.is_clear
          /\ IsWeekly(resp'.boss_id)
          /\ SelectCharacter(resp'.character_id, resp'.user) # {}
          /\ \E r \in runs :
                /\ r.is_clear
                /\ r.character_id = resp'.character_id
                /\ r.boss_id = resp'.boss_id
                /\ r.week_start = resp'.week_start )
        => (resp'.status = 409 /\ runs' = runs /\ drops' = drops) ]_vars

\* a clear logged on Thursday 2024-01-04 and a second one asked for the week
\* of 2024-01-04, refused
C2_Witness ==
    /\ resp.op = "RecordRun" /\ resp.status = 409 /\ resp.is_clear
    /\ resp.week_start = 738889
    /\ \E r \in runs : /\ r.is_clear /\ r.boss_id = resp.boss_id
                       /\ r.character_id = resp.character_id
                       /\ r.week_start = 738889
                       /\ r.cleared_at.date = 738889

\* C3: RecordRun with is_clear = false for a weekly boss by the character's
\* owner succeeds and inserts the run row, also when a clear of the same
\* (character, boss, week_start) exists: it is never answered 409.
C3_AttemptNeverConflicts ==
    ( /\ resp.op = "RecordRun"
      /\ ~resp.is_clear
      /\ IsWeekly(resp.boss_id)
      /\ SelectCharacter(resp.character_id, resp.user) # {} )
    => ( /\ resp.status = 201
         /\ \E r \in runs : r.id = resp.run_id /\ ~r.is_clear )

-----------------------------------------------------------------------------
(* Properties of the week-start calculator *)

\* d lies between the Thursday T and the Wednesday after it
InWeekOf(T, d) == Weekday(T) = 3 /\ T <= d /\ d <= T + 6

\* C4: week_start(d) is a Thursday, lies in d-6 .. d and is d when d is a
\* Thursday; two inputs whose dates lie between the same Thursday and the
\* following Wednesday get the same week_start, and the time of day within a
\* calendar day does not change the result.
C4_WeekStartIsThursdayOnOrBefore ==
    wk.done =>
        LET d1 == wk.t1.date
            d2 == wk.t2.date
        IN  /\ Weekday(wk.w1) = 3
            /\ wk.w1 \in (d1 - 6)..d1
            /\ (Weekday(d1) = 3 => wk.w1 = d1)
            /\ (d1 = 738889 => wk.w1 = 738889)
            /\ ( (\E T \in (d1 - 6)..d1 : InWeekOf(T, d1) /\ InWeekOf(T, d2))
                 => wk.w1 = wk.w2 )
            /\ (d1 = d2 => wk.w1 = wk.w2)

\* Thursday 2024-01-04 00:00 and Sunday 2024-01-07 23:00 both give 2024-01-04
C4_Witness ==
    /\ wk.done
    /\ wk.t1 = Datetime(738889, 0, 0)
    /\ wk.t2 = Datetime(738892, 23, 0)
    /\ wk.w1 = 738889
    /\ wk.w2 = 738889

-----------------------------------------------------------------------------
(* Properties of the drop ledger and of the request transaction *)

\* how often id occurs in the list
Occurrences(ids, id) == Cardinality({k \in 1..Len(ids) : ids[k] = id})

\* C5: RecordRun whose drop_item_ids contains ids of no item still succeeds:
\* the unknown ids are no reason for an error, one BossRunDrop of quantity 1
\* is created per occurrence of an id that names an item, and none for the
\* unknown ids.
C5_UnknownDropIdsSkipped ==
    resp.op = "RecordRun" =>
        /\ (resp.status = 404 =>
               \/ SelectCharacter(resp.character_id, resp.user) = {}
               \/ SelectBoss(resp.boss_id) = {})
        /\ (resp.status = 201 =>
               LET created == {d \in drops : d.boss_run_id = resp.run_id}
               IN  /\ \A d \in created : d.quantity = 1
                   /\ \A i \in ItemIds :
                         Cardinality({d \in created : d.item_id = i}) =
                            IF \E item \in Items : item.id = i
                            THEN Occurrences(resp.drop_item_ids, i)
                            ELSE 0)

\* a run logged with one unknown and one known item id got one drop row
C5_Witness ==
    /\ resp.op = "RecordRun" /\ resp.status = 201
    /\ Occurrences(resp.drop_item_ids, UnknownItem) = 1
    /\ Occurrences(resp.drop_item_ids, 1) = 1
    /\ Cardinality({d \in drops : d.boss_run_id = resp.run_id}) = 1

\* C6: a RecordRun that fails (character missing or not owned, boss unknown,
\* weekly duplicate, or an error while the drop rows are inserted after the
\* run row was flushed) leaves boss_runs and boss_run_drops as they were; a
\* run row is stored only together with the drop rows of its valid item ids.
C6_RecordRunIsAtomic ==
    [][ (Idle /\ resp'.op = "RecordRun") =>
           IF resp'.status = 201
           THEN /\ \E r \in runs' : /\ r.id = resp'.run_id
                                    /\ r \notin runs
                                    /\ runs' = runs \cup {r}
                /\ drops \subseteq drops'
                /\ \A d \in drops' \ drops : d.boss_run_id = resp'.run_id
                /\ Cardinality(drops' \ drops) =
                      Cardinality({k \in 1..Len(resp'.drop_item_ids) :
                                      \E item \in Items :
                                         item.id = resp'.drop_item_ids[k]})
           ELSE runs' = runs /\ drops' = drops ]_vars

\* the item query failed after a drop row had drawn an id from the sequence:
\* nothing was ever stored
C6_Witness ==
    /\ resp.op = "RecordRun" /\ resp.status = 500
    /\ nextDropId > 1
    /\ nextRunId = 1
    /\ runs = {} /\ drops = {}

\* C7: DeleteRun of an unknown run id is answered 404 and changes nothing;
\* by a user who does not own the run's character it is answered 403 and
\* changes nothing; by the owner it removes that run and every drop of that
\* run and no other run or drop.
C7_DeleteRunOwnerOnly ==
    [][ (Idle /\ resp'.op = "DeleteRun") =>
           LET run == {r \in runs : r.id = resp'.run_id}
           IN  IF run = {}
               THEN resp'.status = 404 /\ runs' = runs /\ drops' = drops
               ELSE IF \A r \in run : \A c \in Characters :
                          c.id = r.character_id => c.user_id # resp'.user
               THEN resp'.status = 403 /\ runs' = runs /\ drops' = drops
               ELSE /\ resp'.status = 204
                    /\ runs' = runs \ run
                    /\ drops' = {d \in drops : d.boss_run_id # resp'.run_id} ]_vars

\* the owner deleted a run; another run and a drop of it are still there,
\* and fewer drops are stored than ids were drawn
C7_Witness ==
    /\ resp.op = "DeleteRun" /\ resp.status = 204
    /\ runs # {}
    /\ drops # {}
    /\ Cardinality(drops) < nextDropId - 1

RunIdOps == {"GetRun", "DeleteRun", "AddDrop"}

\* the run the request names belongs to another user
ForeignRun(rs, run_id, user) ==
    \E r \in rs : /\ r.id = run_id
                  /\ \E c \in Characters : c.id = r.character_id /\ c.user_id # user

\* C8 as stated: GetRun, DeleteRun and AddDrop answer a run of another user
\* as they answer a run id that does not exist (404).
C8_ForeignRunLooksMissing ==
    (resp.op \in RunIdOps /\ ForeignRun(runs, resp.run_id, resp.user))
        => resp.status = 404

\* C8 amended: GetRun, DeleteRun and AddDrop answer a run id that does not
\* exist 404 and a run of another user 403; the 403 carries none of the run's
\* fields and nothing changes.
C8_ForeignRunForbidden ==
    [][ (Idle /\ resp'.op \in RunIdOps) =>
           /\ (~\E r \in runs : r.id = resp'.run_id) =>
                 (resp'.status = 404 /\ runs' = runs /\ drops' = drops)
           /\ ForeignRun(runs, resp'.run_id, resp'.user) =>
                 /\ resp'.status = 403
                 /\ resp'.character_id = 0 /\ resp'.boss_id = 0
                 /\ resp'.week_start = 0
                 /\ runs' = runs /\ drops' = drops ]_vars

\* user 1 asked for a run of user 2's character and was answered 403
C8_Witness ==
    /\ resp.op = "GetRun" /\ resp.status = 403 /\ resp.user = 1
    /\ \E r \in runs : r.id = resp.run_id /\ r.character_id = 3

-----------------------------------------------------------------------------
(* Properties of the aggregator *)

\* the (boss, item) pairs of boss_drop_table
TablePairs ==
    {<<BossDropTable[k].boss_id, BossDropTable[k].item_id>> :
        k \in 1..Len(BossDropTable)}

\* the clears of a boss, over all time
ClearsOf(boss_id) == {r \in runs : r.boss_id = boss_id /\ r.is_clear}

\* the drops of an item whose parent run is of the boss
DropsOf(boss_id, item_id) ==
    {d \in drops : /\ d.item_id = item_id
                   /\ \E r \in runs : r.id = d.boss_run_id /\ r.boss_id = boss_id}

\* the fraction q is the quotient a / b
IsQuotient(q, a, b) == q[2] > 0 /\ q[1] * b = a * q[2]

\* C9: after RecomputeAll every (boss, item) pair of boss_drop_table has a
\* stats row with sample_size = number of clears of the boss, drop_count =
\* number of drops of the item in runs of the boss, and drop_rate =
\* drop_count / sample_size, or 0 when sample_size is 0; one clear with one
\* drop gives 1, 1 and 1.0.
C9_StatsMatchLedger ==
    resp.op = "RecomputeAll" =>
        /\ \A p \in TablePairs :
              /\ \E x \in stats : x.boss_id = p[1] /\ x.item_id = p[2]
              /\ \A x \in stats :
                    (x.boss_id = p[1] /\ x.item_id = p[2]) =>
                       /\ x.sample_size = Cardinality(ClearsOf(p[1]))
                       /\ x.drop_count = Cardinality(DropsOf(p[1], p[2]))
                       /\ IF x.sample_size > 0
                          THEN IsQuotient(x.drop_rate, x.drop_count, x.sample_size)
                          ELSE x.drop_rate = <<0, 1>>
        /\ ( /\ Cardinality(runs) = 1 /\ Cardinality(ClearsOf(1)) = 1
             /\ Cardinality(drops) = 1 /\ Cardinality(DropsOf(1, 1)) = 1 )
           => \E x \in stats : /\ x.boss_id = 1 /\ x.item_id = 1
                               /\ x.sample_size = 1 /\ x.drop_count = 1
                               /\ x.drop_rate = <<1, 1>>

\* boss 1 cleared once in the week of 2024-01-04 with item 1 dropped once,
\* then recomputed
C9_Witness ==
    /\ resp.op = "RecomputeAll"
    /\ Cardinality(runs) = 1 /\ Cardinality(drops) = 1
    /\ \E r \in runs : r.boss_id = 1 /\ r.is_clear /\ r.week_start = 738889
    /\ \E d \in drops : d.item_id = 1 /\ d.quantity = 1
    /\ \E x \in stats : x.boss_id = 1 /\ x.item_id = 1 /\ x.drop_rate = <<1, 1>>

\* C10: once RecomputeAll has run, however often, the pairs that have a
\* DropRateStats row are the pairs of boss_drop_table, one row per pair, also
\* for pairs with sample_size 0, whose drop_rate is 0; the count returned is
\* the number of pairs.
C10_OneRowPerPair ==
    (stats # {} \/ resp.op = "RecomputeAll") =>
        /\ {<<x.boss_id, x.item_id>> : x \in stats} = TablePairs
        /\ \A x, y \in stats :
              (x.boss_id = y.boss_id /\ x.item_id = y.item_id) => x = y
        /\ \A x \in stats : x.sample_size = 0 => x.drop_rate = <<0, 1>>
        /\ resp.op = "RecomputeAll" => resp.count = Cardinality(TablePairs)

\* recomputed over a ledger in which one boss has a clear and another has
\* only a failed attempt with a drop: its pair has sample_size 0
C10_Witness ==
    /\ resp.op = "RecomputeAll"
    /\ \E x \in stats : x.sample_size = 0 /\ x.drop_count > 0
    /\ \E y \in stats : y.sample_size > 0
    /\ Cardinality(stats) = 3

\* a stats row without its last_computed
StatNumbers(x) ==
    [boss_id |-> x.boss_id, item_id |-> x.item_id, sample_size |-> x.sample_size,
     drop_count |-> x.drop_count, drop_rate |-> x.drop_rate]

\* C11: RecomputeAll run again with no write to runs, drops or the drop
\* table since the last run leaves sample_size, drop_count and drop_rate of
\* every DropRateStats row as they were and creates no row; only
\* last_computed may differ.
C11_RecomputeIdempotent ==
    [][ (resp.op = "RecomputeAll" /\ resp'.op = "RecomputeAll") =>
           /\ {StatNumbers(x) : x \in stats'} = {StatNumbers(x) : x \in stats}
           /\ Cardinality(stats') = Cardinality(stats)
           /\ {x.id : x \in stats'} = {x.id : x \in stats} ]_vars

\* recomputed a day after the last recompute over a ledger with a clear and
\* a drop: the rows carry the new day and the numbers of the day before
C11_Witness ==
    /\ resp.op = "RecomputeAll"
    /\ now = Day0 + 1
    /\ \E x \in stats : x.sample_size > 0 /\ x.drop_count > 0
    /\ \A x \in stats : x.last_computed = Day0 + 1
    /\ nextRunId > 1

RateOps == {"GetBossRates", "GetItemRates"}

\* the stored rows a rate query is about: those of its boss or of its item
RowsOf(st, r) ==
    IF r.op = "GetBossRates" THEN {x \in st : x.boss_id = r.boss_id}
    ELSE {x \in st : x.item_id = r.item_id}

\* the rows of a sequence
Range(seq) == {seq[k] : k \in 1..Len(seq)}

\* C12: the boss and item rate queries return exactly the DropRateStats rows
\* of the requested boss or item whose sample_size >= min_sample_size,
\* ordered by drop_rate descending; a boss whose only row has sample_size 10
\* asked with min_sample_size 50 gets an empty list; no stored row changes.
C12_RatesFilteredAndOrdered ==
    [][ (Idle /\ resp'.op \in RateOps /\ resp'.status = 200) =>
           /\ stats' = stats
           /\ Range(resp'.rows) =
                 {x \in RowsOf(stats, resp') :
                     x.sample_size >= resp'.min_sample_size}
           /\ Len(resp'.rows) = Cardinality(Range(resp'.rows))
           /\ \A i, j \in 1..Len(resp'.rows) :
                 i < j => resp'.rows[i].drop_rate[1] * resp'.rows[j].drop_rate[2]
                             >= resp'.rows[j].drop_rate[1] * resp'.rows[i].drop_rate[2]
           /\ ( /\ resp'.op = "GetBossRates"
                /\ resp'.min_sample_size = 50
                /\ \A x \in RowsOf(stats, resp') : x.sample_size = 10 )
              => resp'.rows = <<>> ]_vars

\* boss 2, whose only row has sample_size 10 and a rate above 0, asked with
\* min_sample_size 50: an empty list, the row still stored
C12_Witness ==
    /\ resp.op = "GetBossRates" /\ resp.status = 200
    /\ resp.boss_id = 2 /\ resp.min_sample_size = 50
    /\ resp.rows = <<>>
    /\ \E x \in stats : x.boss_id = 2 /\ x.sample_size = 10 /\ x.drop_count = 5

\* boss 1 asked with the default min_sample_size: two rows, the higher rate
\* first
C12_WitnessOrdered ==
    /\ resp.op = "GetBossRates" /\ resp.status = 200
    /\ Len(resp.rows) = 2
    /\ resp.rows[1].drop_rate # resp.rows[2].drop_rate

-----------------------------------------------------------------------------
(* Properties of the weekly summary *)

\* the characters a summary is about
SelectedCharacters(r) ==
    {c.id : c \in {c \in Characters :
                     /\ c.user_id = r.user
                     /\ (r.character_id = 0 \/ c.id = r.character_id)}}

\* the Thursday on or before the day
PeriodStart(day) == CHOOSE T \in (day - 6)..day : Weekday(T) = 3

\* the clears of the boss by the characters in the period that starts at T
PeriodClears(boss_id, chars, T) ==
    {r \in runs : /\ r.boss_id = boss_id /\ r.character_id \in chars
                  /\ r.is_clear /\ r.week_start = T}

ActiveWeeklyBossIds ==
    {b.id : b \in {b \in Bosses : b.reset_type = "weekly" /\ b.is_active}}

\* C13: WeeklyProgress for a user with at least one selected character lists
\* each active weekly boss exactly once and no other boss; a boss is marked
\* cleared iff a clear of it by one of the selected characters has the
\* current period start as week_start; cleared_count is the number of entries
\* marked cleared and total_bosses the number of entries. With no character
\* the list is empty and all counts are 0.
C13_WeeklyProgressComplete ==
    resp.op = "WeeklyProgress" =>
        /\ resp.status = 200
        /\ IF SelectedCharacters(resp) = {}
           THEN /\ resp.rows = <<>>
                /\ resp.total_bosses = 0 /\ resp.count = 0 /\ resp.total_meso = 0
           ELSE /\ {resp.rows[k].boss_id : k \in 1..Len(resp.rows)} = ActiveWeeklyBossIds
                /\ Len(resp.rows) = Cardinality(ActiveWeeklyBossIds)
                /\ \A k \in 1..Len(resp.rows) :
                      resp.rows[k].cleared <=>
                         PeriodClears(resp.rows[k].boss_id, SelectedCharacters(resp),
                                      PeriodStart(now)) # {}
                /\ resp.count = Cardinality({k \in 1..Len(resp.rows) :
                                                resp.rows[k].cleared})
                /\ resp.total_bosses = Len(resp.rows)

\* user 1 asked for all characters: boss 1 cleared this week, boss 3 cleared
\* only for next week and so not marked
C13_Witness ==
    /\ resp.op = "WeeklyProgress" /\ resp.user = 1 /\ resp.character_id = 0
    /\ resp.count = 1 /\ resp.total_bosses = 2
    /\ \E k \in 1..Len(resp.rows) : resp.rows[k].boss_id = 1 /\ resp.rows[k].cleared
    /\ \E r \in runs : r.boss_id = 3 /\ r.is_clear /\ r.week_start = 738896

\* a user without characters asked: an empty list
C13_WitnessNoCharacters ==
    /\ resp.op = "WeeklyProgress" /\ resp.user = NewUser
    /\ resp.rows = <<>> /\ runs # {}

\* floor(crystal_meso / party_size) of one entry marked cleared: the share of
\* the clearing run of the character the entry names
EntryShare(e, T) ==
    LET run == CHOOSE r \in runs : /\ r.boss_id = e.boss_id
                                  /\ r.character_id = e.character_id
                                  /\ r.is_clear /\ r.week_start = T
    IN  IF e.crystal_meso = <<>> THEN 0
        ELSE CHOOSE q \in 0..e.crystal_meso[1] :
                /\ q * run.party_size <= e.crystal_meso[1]
                /\ e.crystal_meso[1] < (q + 1) * run.party_size

RECURSIVE SumShares(_, _)
SumShares(entries, T) ==
    IF entries = <<>> THEN 0
    ELSE (IF Head(entries).cleared THEN EntryShare(Head(entries), T) ELSE 0)
         + SumShares(Tail(entries), T)

\* C14: total_meso is the sum, over the bosses marked cleared, of
\* floor(crystal_meso / party_size) of one clearing run per boss, the run of
\* the character the entry names, who is one of the selected characters with
\* a clear of the boss this period; a boss cleared by several characters
\* counts once and a boss without a crystal value counts 0.
C14_TotalMesoOncePerBoss ==
    (resp.op = "WeeklyProgress" /\ SelectedCharacters(resp) # {}) =>
        /\ \A k \in 1..Len(resp.rows) :
              resp.rows[k].cleared =>
                 /\ resp.rows[k].character_id \in SelectedCharacters(resp)
                 /\ PeriodClears(resp.rows[k].boss_id, {resp.rows[k].character_id},
                                 PeriodStart(now)) # {}
        /\ resp.total_meso = SumShares(resp.rows, PeriodStart(now))

\* boss 1 (crystal 7) cleared this week by character 1 alone and by
\* character 2 in a party of two: it counts once, as floor(7 / 2) = 3
C14_Witness ==
    /\ resp.op = "WeeklyProgress" /\ resp.user = 1 /\ resp.character_id = 0
    /\ resp.total_meso = 3 /\ resp.count = 1
    /\ Cardinality(PeriodClears(1, {1, 2}, PeriodStart(now))) = 2

\* boss 3, without a crystal value, cleared: it counts 0
C14_WitnessNoCrystal ==
    /\ resp.op = "WeeklyProgress" /\ resp.user = 1
    /\ resp.count = 2 /\ resp.total_meso = 7

-----------------------------------------------------------------------------
(* Properties of the XP calculator *)

\* the decimal d as an integer number of units of 10^e
UnitsOf(d, e) == IF d[1] = 0 THEN 0 ELSE d[1] * Pow10(d[2] - e)

\* C15: GainedXP(level, old, new) * 100 = required_xp[level] * (new - old)
\* for every level of the table and all percents; GainedXP(level, p, p) = 0
\* and GainedXP(level, 0, 100) = required_xp[level]; a level requiring
\* 500,000,000,000 XP with 10.00 to 15.00 percent gives 25,000,000,000; a
\* level absent from the table gives a domain error and no value.
C15_GainedXPLinear ==
    calc.done =>
        IF calc.level \in {250, 260, 270}
        THEN /\ ~calc.result.error
             \* gained in units of 10^7 XP, required in units of 10^11 XP,
             \* percents in hundredths: gained * 100 = required * (new - old)
             /\ UnitsOf(calc.result.actual, 7) =
                   UnitsOf(required_xp_table[calc.level], 11)
                      * (UnitsOf(calc.new_percent, -2) - UnitsOf(calc.old_percent, -2))
             /\ (calc.new_percent = calc.old_percent => calc.result.actual = <<0, 0>>)
             /\ (calc.old_percent = <<0, 0>> /\ calc.new_percent = <<1, 2>>)
                   => calc.result.actual = required_xp_table[calc.level]
             /\ ( /\ calc.level = 250
                  /\ calc.old_percent = <<1, 1>> /\ calc.new_percent = <<15, 0>> )
                   => calc.result.actual = <<25, 9>>
        ELSE calc.result.error

\* level 250 from 10.00 to 15.00 percent: 25,000,000,000, which is 25
\* billions
C15_Witness ==
    /\ calc.done /\ calc.level = 250
    /\ calc.old_percent = Percent(1000) /\ calc.new_percent = Percent(1500)
    /\ calc.result.actual = <<25, 9>>
    /\ calc.result.billions = <<25, 0>>

\* a level without a row: the error
C15_WitnessOutOfTable ==
    calc.done /\ calc.level = 300 /\ calc.result.error

-----------------------------------------------------------------------------
(* Properties of the XP entries *)

\* C16: every XP entry write whose resulting percent pair is not strictly
\* increasing is rejected before any write, for create and for update; so
\* every stored XPEntry has new_percent > old_percent.
C16_PercentPairIncreasing ==
    \A e \in xp :
        UnitsOf(e.new_percent, -2) > UnitsOf(e.old_percent, -2)

\* C17: there is at most one XPEntry per (user, entry_date); a create for a
\* date that already has an entry of that user is answered with a client
\* error and leaves the stored entries as they were.
C17_OneEntryPerUserAndDate ==
    /\ [](\A e1, e2 \in xp :
            (e1.user_id = e2.user_id /\ e1.entry_date = e2.entry_date) => e1 = e2)
    /\ [][ ( /\ Idle
             /\ resp'.op = "CreateXPEntry"
             /\ \E e \in xp : e.user_id = resp'.user /\ e.entry_date = resp'.entry_date )
           => ( /\ resp'.status >= 400 /\ resp'.status < 500
                /\ xp' = xp ) ]_vars

\* a create of user 1 for a date that has an entry of user 1 with another
\* level and an entry of user 2 was refused
C17_Witness ==
    /\ resp.op = "CreateXPEntry" /\ resp.status = 400 /\ resp.user = 1
    /\ \E e \in xp : /\ e.user_id = 1 /\ e.entry_date = resp.entry_date
                      /\ e.level # resp.data[1].level
    /\ \E e \in xp : e.user_id = 2 /\ e.entry_date = resp.entry_date

\* C18: an XP entry write that leaves epic_dungeon enabled at a level with
\* no bonus-table entry is rejected and stores nothing; no stored XPEntry
\* has epic_dungeon = true with an absent bonus value.
C18_EpicNeedsBonusEntry ==
    \A e \in xp :
        e.epic_dungeon =>
            /\ e.level \in {260, 270}
            /\ e.epic_dungeon_xp_billions # <<>>
            /\ e.epic_dungeon_xp_trillions # <<>>

\* C19: every stored XPEntry has xp_gained = required_xp[level] *
\* (new_percent - old_percent) / 100 for its current level and percentages,
\* in billions (units of 10^7 XP are hundredths of a billion) and in
\* trillions (hundred-thousandths of a trillion).
C19_GainMatchesFields ==
    \A e \in xp :
        LET expected == UnitsOf(required_xp_table[e.level], 11)
                           * (UnitsOf(e.new_percent, -2) - UnitsOf(e.old_percent, -2))
        IN  /\ UnitsOf(e.xp_gained_billions, -2) = expected
            /\ UnitsOf(e.xp_gained_trillions, -5) = expected

\* the bonus base of a level in hundredths of a billion
BonusBase(level) == IF level = 260 THEN 19460 ELSE IF level = 270 THEN 38475 ELSE 0

\* effective(4) = 5, effective(8) = 9, otherwise the multiplier
Effective(multiplier) ==
    IF multiplier = 4 THEN 5 ELSE IF multiplier = 8 THEN 9 ELSE multiplier

\* C20: every stored XPEntry has total_daily_xp = xp_gained + bonus, where
\* bonus is bonus_base[level] * effective(multiplier) when epic_dungeon is
\* true and 0 when it is false (entries with the flag at a level without a
\* bonus base are left to C18).
C20_TotalIsGainPlusBonus ==
    \A e \in xp :
        (e.epic_dungeon => e.level \in {260, 270}) =>
            UnitsOf(e.total_daily_xp_billions, -2) =
                UnitsOf(e.xp_gained_billions, -2)
                + (IF e.epic_dungeon
                   THEN BonusBase(e.level) * Effective(e.epic_dungeon_multiplier)
                   ELSE 0)

\* billions = 1000 * trillions
SameQuantity(billions, trillions) == billions = DecMul(trillions, <<1, 3>>)

\* the same for an Optional pair: both None, or both set and the same quantity
SameOptionalQuantity(billions, trillions) ==
    IF billions = None \/ trillions = None THEN billions = trillions
    ELSE SameQuantity(billions[1], trillions[1])

-----------------------------------------------------------------------------
(* Further properties of the aggregator *)

\* C22: after RecomputeAll every DropRateStats row has 0 <= drop_rate <= 1:
\* drop_count <= sample_size whenever sample_size > 0, and drop_count = 0
\* whenever sample_size = 0.
C22_DropRateBetweenZeroAndOne ==
    resp.op = "RecomputeAll" =>
        \A x \in stats :
            /\ x.drop_rate[1] >= 0
            /\ x.drop_rate[1] <= x.drop_rate[2]
            /\ (x.sample_size > 0 => x.drop_count <= x.sample_size)
            /\ (x.sample_size = 0 => x.drop_count = 0)

\* the operations that write the ledger and the endpoints that only read
LedgerWriteOps == {"RecordRun", "AddDrop", "DeleteRun"}
ReadOps == {"GetRun", "WeeklyProgress", "GetBossRates", "GetItemRates"}

\* C23: RecordRun, AddDrop, DeleteRun and every read endpoint leave all
\* DropRateStats rows as they were; RecomputeAll leaves the BossRun and
\* BossRunDrop rows as they were (bosses, items and boss_drop_table are
\* fixed reference data that no operation of the model touches); the read
\* endpoints change no table at all.
C23_OnlyRecomputeWritesStats ==
    [][ Idle =>
           /\ resp'.op \in LedgerWriteOps \cup ReadOps => stats' = stats
           /\ resp'.op \in ReadOps => (runs' = runs /\ drops' = drops)
           /\ resp'.op = "RecomputeAll" => (runs' = runs /\ drops' = drops)
           /\ stats' # stats => resp'.op = "RecomputeAll" ]_vars

\* a run with a drop was logged after a recompute: the ledger has a clear of
\* boss 1 and a drop of item 1, and the stats rows still say 0 and 0
C23_Witness ==
    /\ resp.op = "RecordRun" /\ resp.status = 201
    /\ \E r \in runs : r.boss_id = 1 /\ r.is_clear
    /\ \E d \in drops : d.item_id = 1
    /\ Cardinality(stats) = Len(BossDropTable)
    /\ \A x \in stats : x.sample_size = 0 /\ x.drop_count = 0

\* the row of the k-th pair of boss_drop_table in a stats table
PairRows(st, k) ==
    {x \in st : /\ x.boss_id = BossDropTable[k].boss_id
                /\ x.item_id = BossDropTable[k].item_id}

\* C24: when RecomputeAll has failed while processing the k-th pair, the
\* stats rows of the pairs processed before it hold the values computed in
\* that run, and the later pairs their old values.
C24_CommitsPerPair ==
    agg.status = 500 =>
        /\ \A k \in 1..(agg.failed_at - 1) :
              PairRows(stats, k) = PairRows(agg.session, k)
        /\ \A k \in agg.failed_at..Len(BossDropTable) :
              PairRows(agg.session, k) \subseteq PairRows(stats, k)

\* the numbers the ledger defines for a stats row
MatchesLedger(x) ==
    /\ x.sample_size = Cardinality(ClearsOf(x.boss_id))
    /\ x.drop_count = Cardinality(DropsOf(x.boss_id, x.item_id))
    /\ IF x.sample_size > 0
       THEN IsQuotient(x.drop_rate, x.drop_count, x.sample_size)
       ELSE x.drop_rate = <<0, 1>>

\* C26: a RecomputeAll whose passes all saw the same ledger, the one stored
\* when it commits, leaves one DropRateStats row per pair with the
\* sample_size, drop_count and drop_rate that ledger defines, whatever the
\* rows held before; a RecomputeAll interleaved with commits of RecordRun,
\* AddDrop or DeleteRun may store rows of one boss computed from different
\* ledgers.
C26_SettlesAfterWritesStop ==
    [][ ( /\ agg.pc = Len(BossDropTable) + 1
          /\ agg'.status = 202
          /\ agg.clean /\ agg.base = <<runs, drops>> )
        => ( /\ {<<x.boss_id, x.item_id>> : x \in stats'} = TablePairs
             /\ Cardinality(stats') = Cardinality(TablePairs)
             /\ \A x \in stats' : MatchesLedger(x) ) ]_vars

\* the rows of boss 1 disagreed on sample_size after an interleaved
\* recompute; a recompute that saw one ledger throughout has just committed
\* and the rows agree with the ledger
C26_Witness ==
    /\ agg.status = 202 /\ agg.clean /\ agg.base = <<runs, drops>>
    /\ \E x, y \in agg.before :
          x.boss_id = y.boss_id /\ x.sample_size # y.sample_size
    /\ \A x \in stats : MatchesLedger(x)
    /\ runs # {}

-----------------------------------------------------------------------------
(* Properties of concurrent requests *)

\* two requests ask for a clear of the same character, weekly boss and week
SameClearAsked(r1, r2) ==
    /\ r1.op = "RecordRun" /\ r2.op = "RecordRun"
    /\ r1.is_clear /\ r2.is_clear
    /\ IsWeekly(r1.boss_id)
    /\ r1.character_id = r2.character_id
    /\ r1.boss_id = r2.boss_id
    /\ r1.week_start = r2.week_start

\* C25: under every interleaving of two concurrent RecordRun requests for
\* the same (character, weekly boss, week_start) with is_clear = true, the
\* ledger holds at most one clear of the triple, and the two requests are
\* never both answered 201: one inserts and the other is answered 409.
C25_OneClearUnderInterleaving ==
    /\ \A r1, r2 \in runs :
          (IsWeekly(r1.boss_id) /\ r1.is_clear /\ r2.is_clear /\ SameTriple(r1, r2))
             => r1.id = r2.id
    /\ \A p, q \in Slots :
          ( /\ p # q
            /\ txn[p].pc = "done" /\ txn[q].pc = "done"
            /\ SameClearAsked(txn[p].request, txn[q].request) )
          => ~(txn[p].request.status = 201 /\ txn[q].request.status = 201)

-----------------------------------------------------------------------------
(* Further properties of the week-start calculator *)

\* the instant of a datetime, in hours UTC since the start of ordinal 0
InstantOf(dt) == dt.date * 24 + dt.hour - dt.utcoffset

\* the UTC calendar date of a datetime
UtcDateOf(dt) == InstantOf(dt) \div 24

\* C27: two cleared_at values that denote the same instant with different
\* UTC offsets get the same week_start, the Thursday on or before the UTC
\* date of the instant.
C27_WeekStartOfInstant ==
    (wk.done /\ InstantOf(wk.t1) = InstantOf(wk.t2)) =>
        /\ wk.w1 = wk.w2
        /\ wk.w1 = PeriodStart(UtcDateOf(wk.t1))

-----------------------------------------------------------------------------
(* Properties of the weekly summary over time *)

\* the clears of the boss by the characters that were logged, without
\* cleared_at, on a day of the reset week that contains the day
ClearsLoggedInWeekOf(day, boss_id, chars) ==
    {r \in runs : /\ r.boss_id = boss_id /\ r.character_id \in chars /\ r.is_clear
                  /\ PeriodStart(r.cleared_at.date) = PeriodStart(day)}

\* C28: a clear of an active weekly boss logged without cleared_at is
\* reported as cleared by every WeeklyProgress of the owner made on a day
\* before the next Thursday and by none made from that Thursday on; once the
\* owner has deleted the run it is reported no more, and a new clear of the
\* same character and boss in the week is accepted.
C28_ClearedUntilNextReset ==
    [][ Idle =>
           /\ (resp'.op = "WeeklyProgress" /\ SelectedCharacters(resp') # {}) =>
                 \A k \in 1..Len(resp'.rows) :
                    resp'.rows[k].cleared <=>
                       ClearsLoggedInWeekOf(now, resp'.rows[k].boss_id,
                                            SelectedCharacters(resp')) # {}
           /\ ( /\ resp'.op = "RecordRun" /\ resp'.is_clear
                /\ resp'.boss_id \in ActiveWeeklyBossIds
                /\ SelectCharacter(resp'.character_id, resp'.user) # {}
                /\ ClearsLoggedInWeekOf(now, resp'.boss_id, {resp'.character_id}) = {} )
              => ( /\ resp'.status = 201
                   /\ \E r \in runs' : /\ r.id = resp'.run_id /\ r.is_clear
                                       /\ r.week_start = PeriodStart(now) )
           /\ (resp'.op = "DeleteRun" /\ resp'.status = 204) =>
                 ~\E r \in runs' : r.id = resp'.run_id
      ]_vars

\* on the Thursday after a clear of boss 1 logged on Thursday 2024-01-04 the
\* summary no longer reports the boss as cleared
C28_Witness ==
    /\ resp.op = "WeeklyProgress" /\ resp.status = 200
    /\ now = Day0 + 7
    /\ \E r \in runs : r.boss_id = 1 /\ r.is_clear /\ r.cleared_at.date = Day0
    /\ \E k \in 1..Len(resp.rows) : resp.rows[k].boss_id = 1 /\ ~resp.rows[k].cleared

\* on the Wednesday after, the summary still reports it
C28_WitnessLastDay ==
    /\ resp.op = "WeeklyProgress" /\ resp.status = 200
    /\ now = Day0 + 6
    /\ \E r \in runs : r.boss_id = 1 /\ r.is_clear /\ r.cleared_at.date = Day0
    /\ \E k \in 1..Len(resp.rows) : resp.rows[k].boss_id = 1 /\ resp.rows[k].cleared

\* the clear was deleted and a new clear of the same week accepted
C28_WitnessAgain ==
    /\ resp.op = "RecordRun" /\ resp.status = 201 /\ resp.run_id = 2
    /\ resp.is_clear /\ resp.boss_id = 1
    /\ Cardinality(runs) = 1
    /\ now = Day0 + 1

-----------------------------------------------------------------------------
(* Properties of the XP overview *)

\* C29: when the per-level experience table file is absent the overview
\* request still succeeds, and progress_percent is absent for every
\* character, with or without snapshots.
C29_NoTableNoProgress ==
    (resp.op = "XPOverview" /\ ~xp_table_file) =>
        /\ resp.status = 200
        /\ \A k \in 1..Len(resp.rows) : resp.rows[k].progress_percent = None

-----------------------------------------------------------------------------
(* Further properties of the drop ledger *)

\* C30: every BossRunDrop references an existing BossRun; no operation
\* changes the run, item or quantity of an existing drop; a drop disappears
\* only in a DeleteRun that removes its parent run; AddDrop on a run of
\* another user's character is answered 403, on an unknown run or an unknown
\* item 404, each adding no row, and otherwise appends exactly one row with
\* the requested run, item and quantity.
C30_DropLedgerAppendOnly ==
    /\ [](\A d \in drops : \E r \in runs : r.id = d.boss_run_id)
    /\ [][ /\ \A d \in drops : \A e \in drops' : e.id = d.id => e = d
           /\ \A d \in drops :
                 d \notin drops' =>
                    /\ resp'.op = "DeleteRun" /\ resp'.run_id = d.boss_run_id
                    /\ ~\E r \in runs' : r.id = d.boss_run_id
           /\ (Idle /\ resp'.op = "AddDrop") =>
                 IF ~\E r \in runs : r.id = resp'.run_id
                 THEN resp'.status = 404 /\ drops' = drops
                 ELSE IF ForeignRun(runs, resp'.run_id, resp'.user)
                 THEN resp'.status = 403 /\ drops' = drops
                 ELSE IF ~\E i \in Items : i.id = resp'.item_id
                 THEN resp'.status = 404 /\ drops' = drops
                 ELSE /\ resp'.status = 201
                      /\ drops \subseteq drops'
                      /\ \E d \in drops' \ drops :
                            /\ drops' = drops \cup {d}
                            /\ d.boss_run_id = resp'.run_id
                            /\ d.item_id = resp'.item_id
                            /\ d.quantity = resp'.count
         ]_vars

\* user 1 asked to add a drop to a run of user 2's character that has a drop
\* already: 403, and the run still has its one drop
C30_Witness ==
    /\ resp.op = "AddDrop" /\ resp.status = 403 /\ resp.user = 1
    /\ \E r \in runs : r.id = resp.run_id /\ r.character_id = 3
    /\ Cardinality({d \in drops : d.boss_run_id = resp.run_id}) = 1

\* a drop of quantity 2 appended to a run that was logged with a drop of
\* quantity 1 of the same item
C30_WitnessAppended ==
    /\ resp.op = "AddDrop" /\ resp.status = 201
    /\ \E d1, d2 \in drops : /\ d1.boss_run_id = resp.run_id /\ d2.boss_run_id = resp.run_id
                             /\ d1.item_id = d2.item_id
                             /\ d1.quantity = 1 /\ d2.quantity = 2

====
